---- MODULE Spec2Model ----
(***************************************************************************)
(* copilot-router: the credential pool (TokenManager and its record        *)
(* store), the /auth/complete single-flight guard, the dispatching         *)
(* endpoints, the Anthropic streaming translator and the gateway           *)
(* (middleware and route mounting of main()).                              *)
(***************************************************************************)
EXTENDS Integers, Sequences, FiniteSets, TLC

VARIABLES
    \* ---- credential pool ----
    now,           \* the clock (new Date())
    db,            \* rows of table github_tokens; a row's id is its position
    heap,          \* the TokenEntry objects ever created; a reference is a position
    tokens,        \* TokenManager.tokens: the Map id -> entry, in insertion order
    tasks,         \* the requests and jobs in flight, one per slot
    processingDeviceCodes,  \* the single-flight set of /auth/complete
    authorized,    \* device codes the user has authorized at the identity provider
    mainPc,        \* main(): "init" before loadFromDatabase, then "serving"
    ops,           \* operations the run may still start
    \* ---- streaming translator (one streaming response) ----
    streamState,   \* AnthropicStreamState of the response
    events,        \* events written to the client, in order
    chunksIn,      \* chunks read from the upstream stream so far, in order
    spc,           \* position of the streaming loop: "loop" | "done" | "failed" | "cancelled"
    client,        \* the handler that serves the response, and whether its client is connected
    \* ---- gateway (one inbound request) ----
    gw,            \* the configuration of the process and the request on its way
    \* ---- request translation (one request) ----
    tr,            \* the request, the endpoint that served it and its result
    \* ---- device-code flow (one run of a blocking poll loop) ----
    poll           \* the loop, the identity provider and the last poll result

poolVars == <<now, db, heap, tokens, tasks, processingDeviceCodes, authorized, mainPc, ops>>
streamVars == <<streamState, events, chunksIn, spc, client>>
gatewayVars == <<gw>>
translateVars == <<tr>>
pollVars == <<poll>>
restOfPool == <<streamVars, gatewayVars, translateVars, pollVars>>
restOfStream == <<poolVars, gatewayVars, translateVars, pollVars>>
restOfGateway == <<poolVars, streamVars, translateVars, pollVars>>
restOfTranslate == <<poolVars, streamVars, gatewayVars, pollVars>>
restOfPoll == <<poolVars, streamVars, gatewayVars, translateVars>>
vars == <<poolVars, streamVars, gatewayVars, translateVars, pollVars>>

(***************************************************************************)
(* Credential pool: values                                                 *)
(***************************************************************************)

\* Operations (requests, refresh passes, clock ticks) one modelled run starts at
\* most: in the specifications of the whole pool, and in the specification of
\* the refresh cycle.
MaxOps == 3
MaxRefreshOps == 4

Null == "null"
NoTime == 0 - 1
\* `undefined`, the result of a find that matches nothing; references start at 1.
NoRef == 0

Tasks == {1, 2}
\* The raw credentials clients supply; g2 is the credential of a stored account.
RawCredentials == {"g1", "g1b"}
DeviceCodes == {"d1", "d2"}

\* getGitHubUserForToken(githubToken).login: g1 and g1b are two credentials of
\* the same account.
UserOf(raw) == IF raw = "g2" THEN "u2" ELSE "u1"

\* The access token the identity provider hands out for an authorized device code.
AccessTokenOf(dc) == IF dc = "d1" THEN "g1" ELSE "g1b"

\* The upstream token the exchange returns for a raw credential.
CopilotTokenFor(raw) == "ct_" \o raw

DeactivationThreshold == 3

TokenRecord(raw, user, tok, exp, active) ==
    [github_token |-> raw, username |-> user, copilot_token |-> tok,
     copilot_token_expires_at |-> exp, account_type |-> "individual",
     is_active |-> active]

\* Contents the table can have when the process starts: empty; two accounts whose
\* stored upstream tokens expire at different times; one account with a stored
\* upstream token, or without one; a deactivated row beside an active one.
InitialDbs ==
    { <<>>,
      << TokenRecord("g1", "u1", "ct_g1", 0, TRUE),
         TokenRecord("g2", "u2", "ct_g2", 2, TRUE) >>,
      << TokenRecord("g1", "u1", "ct_g1", 0, TRUE) >>,
      << TokenRecord("g1", "u1", Null, NoTime, TRUE) >>,
      << TokenRecord("g1", "u1", Null, NoTime, FALSE),
         TokenRecord("g2", "u2", "ct_g2", 2, TRUE) >> }

(***************************************************************************)
(* Record store (database.ts)                                              *)
(***************************************************************************)

\* SELECT * FROM github_tokens WHERE is_active = 1: the ids, in key order.
GetAllTokens(d) == SelectSeq([k \in 1..Len(d) |-> k], LAMBDA k : d[k].is_active)

HasUsername(d, user) == \E k \in 1..Len(d) : d[k].username = user

\* saveToken as a plain INSERT, without the match on username.
SaveToken_AlwaysInsert(d, raw, user) ==
    [db |-> Append(d, TokenRecord(raw, user, Null, NoTime, TRUE)), id |-> Len(d) + 1]

\* MERGE ... ON target.username = source.username: the table afterwards and
\* inserted.id.
SaveToken(d, raw, user) ==
    IF HasUsername(d, user)
    THEN LET k == CHOOSE j \in 1..Len(d) : d[j].username = user
         IN  [db |-> [d EXCEPT ![k].github_token = raw,
                               ![k].account_type = "individual",
                               ![k].is_active = TRUE],
              id |-> k]
    ELSE [db |-> Append(d, TokenRecord(raw, user, Null, NoTime, TRUE)),
          id |-> Len(d) + 1]

UpdateCopilotToken(d, id, tok, exp) ==
    IF id \in 1..Len(d)
    THEN [d EXCEPT ![id].copilot_token = tok, ![id].copilot_token_expires_at = exp]
    ELSE d

UpdateGithubToken(d, id, raw) ==
    IF id \in 1..Len(d)
    THEN [d EXCEPT ![id].github_token = raw, ![id].is_active = TRUE]
    ELSE d

DeactivateToken(d, id) ==
    IF id \in 1..Len(d) THEN [d EXCEPT ![id].is_active = FALSE] ELSE d

(***************************************************************************)
(* TokenManager (token-manager.ts)                                         *)
(***************************************************************************)

\* The entry loadFromDatabase builds from a record.
EntryOfRecord(id, rec) ==
    [id |-> id, githubToken |-> rec.github_token, username |-> rec.username,
     copilotToken |-> rec.copilot_token,
     copilotTokenExpiresAt |-> rec.copilot_token_expires_at,
     accountType |-> rec.account_type, isActive |-> rec.is_active,
     models |-> FALSE, lastUsed |-> NoTime, requestCount |-> 0, errorCount |-> 0,
     failedExchanges |-> 0]

\* The entry addToken creates for a new user.
NewEntry(id, raw, user) ==
    [id |-> id, githubToken |-> raw, username |-> user,
     copilotToken |-> Null, copilotTokenExpiresAt |-> NoTime,
     accountType |-> "individual", isActive |-> TRUE,
     models |-> FALSE, lastUsed |-> NoTime, requestCount |-> 0, errorCount |-> 0,
     failedExchanges |-> 0]

\* Map operations on tokens, a sequence of [id, ref] in insertion order.
MapHas(m, id) == \E k \in 1..Len(m) : m[k].id = id
MapGet(m, id) == m[CHOOSE k \in 1..Len(m) : m[k].id = id].ref
\* A map that keeps the old entry of a key beside the new one.
MapSet_Append(m, id, ref) == Append(m, [id |-> id, ref |-> ref])

MapSet(m, id, ref) ==
    IF MapHas(m, id)
    THEN [k \in 1..Len(m) |-> IF m[k].id = id THEN [id |-> id, ref |-> ref] ELSE m[k]]
    ELSE Append(m, [id |-> id, ref |-> ref])
\* A delete that leaves the map as it is.
MapDelete_Keeps(m, id) == m

MapDelete(m, id) == SelectSeq(m, LAMBDA kv : kv.id # id)

\* The filter of getActiveTokenEntries: t.isActive && t.copilotToken.
IsSelectable(e) == e.isActive /\ e.copilotToken # Null

\* getActiveTokenEntries(): the references of the selectable entries.
GetActiveTokenEntries(h, m) == SelectSeq(m, LAMBDA kv : IsSelectable(h[kv.ref]))

\* getRandomTokenEntry(): the side effect on the entry chosen.
MarkUsed(e, time) == [e EXCEPT !.lastUsed = time, !.requestCount = @ + 1]

\* Array.from(tokens.values()).find(t => t.username === username): the reference
\* of the first match, NoRef when there is none.
FindByUsername(h, m, user) ==
    IF \E k \in 1..Len(m) : h[m[k].ref].username = user
    THEN LET k == CHOOSE j \in 1..Len(m) :
                    /\ h[m[j].ref].username = user
                    /\ \A i \in 1..(j - 1) : h[m[i].ref].username # user
         IN  m[k].ref
    ELSE NoRef

\* failedExchanges is the history of an entry that the code does not keep: the
\* token exchanges that failed for it since its last successful exchange or the
\* last replacement of its credential.
ExchangeFailed(e) == [e EXCEPT !.failedExchanges = @ + 1]

NoFailedExchanges(e) == [e EXCEPT !.failedExchanges = 0]

\* addToken, update path: the existing entry with the new credential.
UpdateExisting(e, raw) ==
    [e EXCEPT !.githubToken = raw, !.isActive = TRUE, !.errorCount = 0]

\* A successful exchange that also switches the entry on again.
RefreshSucceeded_Reactivating(e, tok, exp) ==
    [e EXCEPT !.copilotToken = tok, !.copilotTokenExpiresAt = exp, !.errorCount = 0,
              !.isActive = TRUE]

\* A successful exchange that leaves the error count as it was.
RefreshSucceeded_KeepsCount(e, tok, exp) ==
    [e EXCEPT !.copilotToken = tok, !.copilotTokenExpiresAt = exp]

\* refreshCopilotTokenForEntry, try block: the entry after a successful exchange.
RefreshSucceeded(e, tok, exp) ==
    [e EXCEPT !.copilotToken = tok, !.copilotTokenExpiresAt = exp, !.errorCount = 0]

\* A failed exchange that switches the entry off one failure early.
RefreshFailed_Early(e) ==
    LET n == e.errorCount + 1
    IN  [e EXCEPT !.errorCount = n, !.copilotToken = Null,
                  !.copilotTokenExpiresAt = NoTime,
                  !.isActive = IF n + 1 >= DeactivationThreshold THEN FALSE ELSE @]

\* A failed exchange that leaves the upstream token and its expiry in place.
RefreshFailed_KeepsToken(e) ==
    LET n == e.errorCount + 1
    IN  [e EXCEPT !.errorCount = n,
                  !.isActive = IF n >= DeactivationThreshold THEN FALSE ELSE @]

\* refreshCopilotTokenForEntry, catch block: the entry after a failed exchange.
RefreshFailed(e) ==
    LET n == e.errorCount + 1
    IN  [e EXCEPT !.errorCount = n, !.copilotToken = Null,
                  !.copilotTokenExpiresAt = NoTime,
                  !.isActive = IF n >= DeactivationThreshold THEN FALSE ELSE @]

\* A reportError that switches the entry off at the threshold.
ReportError_Deactivating(h, m, id) ==
    IF MapHas(m, id)
    THEN [h EXCEPT ![MapGet(m, id)].errorCount = @ + 1,
                   ![MapGet(m, id)].isActive =
                       IF h[MapGet(m, id)].errorCount + 1 >= DeactivationThreshold
                       THEN FALSE ELSE @]
    ELSE h

\* reportError(id): the heap afterwards.
ReportError(h, m, id) ==
    IF MapHas(m, id) THEN [h EXCEPT ![MapGet(m, id)].errorCount = @ + 1] ELSE h

\* refreshAllCopilotTokens: `if (!entry.isActive) continue` over the snapshot.
RECURSIVE SkipInactive(_, _)
SkipInactive(queue, h) ==
    IF queue = <<>> THEN <<>>
    ELSE IF ~h[Head(queue)].isActive THEN SkipInactive(Tail(queue), h)
    ELSE queue

(***************************************************************************)
(* Requests and jobs in flight                                             *)
(***************************************************************************)

\* A slot that runs nothing, or whose last request has been answered.
IdleTask ==
    [op |-> "none", pc |-> "done", raw |-> Null, dc |-> Null, ref |-> NoRef,
     id |-> 0, queue |-> <<>>, rfRaw |-> Null, tok |-> Null, exp |-> NoTime,
     status |-> 0, result |-> "", resId |-> 0, sent |-> <<>>, polled |-> <<>>]

Answer(tk, status, result, resId) ==
    [IdleTask EXCEPT !.op = tk.op, !.dc = tk.dc, !.status = status,
                     !.result = result, !.resId = resId, !.sent = tk.sent,
                     !.polled = tk.polled]

\* The call of refreshCopilotTokenForEntry(entry): the exchange request goes out
\* with the raw credential the entry holds now.
StartRefresh(tk, h) == [tk EXCEPT !.pc = "rf_exchange", !.rfRaw = h[tk.ref].githubToken]

\* refreshAllCopilotTokens: the next entry of the snapshot, or the end of the pass.
ContinueRefreshAll(tk, h) ==
    LET q == SkipInactive(tk.queue, h)
    IN  IF q = <<>> THEN Answer(tk, 0, "refreshed", 0)
        ELSE StartRefresh([tk EXCEPT !.ref = Head(q), !.queue = Tail(q)], h)

\* addToken without the try/catch around its refresh: a failed exchange fails
\* the add.
AfterRefresh_Rethrow(tk, h) ==
    CASE tk.op = "add" /\ h[tk.ref].copilotToken = Null -> Answer(tk, 500, "error", 0)
      [] tk.op = "add" -> Answer(tk, 200, "added", h[tk.ref].id)
      [] tk.op = "complete" -> Answer(tk, 200, "success", h[tk.ref].id)
      [] OTHER -> ContinueRefreshAll(tk, h)

\* A refresh pass that a failed refresh ends with an error.
AfterRefresh_AbortsPass(tk, h) ==
    CASE tk.op = "add" -> Answer(tk, 200, "added", h[tk.ref].id)
      [] tk.op = "complete" -> Answer(tk, 200, "success", h[tk.ref].id)
      [] h[tk.ref].copilotToken = Null -> Answer(tk, 500, "error", 0)
      [] OTHER -> ContinueRefreshAll(tk, h)

\* What follows the return (or the caught throw) of refreshCopilotTokenForEntry.
AfterRefresh(tk, h) ==
    CASE tk.op = "add" -> Answer(tk, 200, "added", h[tk.ref].id)
      [] tk.op = "complete" -> Answer(tk, 200, "success", h[tk.ref].id)
      [] OTHER -> ContinueRefreshAll(tk, h)

\* A release of the device code after the return of addToken only, not in a
\* finally block.
ReleaseDeviceCode_OnReturn(tk, after) ==
    IF tk.op = "complete" /\ after.pc = "done" /\ after.status = 200
    THEN processingDeviceCodes \ {tk.dc}
    ELSE processingDeviceCodes

\* The finally block of /auth/complete runs when its addToken returns or throws.
ReleaseDeviceCode(tk, after) ==
    IF tk.op = "complete" /\ after.pc = "done"
    THEN processingDeviceCodes \ {tk.dc}
    ELSE processingDeviceCodes

InAddToken(tk) ==
    tk.op \in {"add", "complete"}
    /\ tk.pc \in {"add_lookup", "add_updDb", "add_save", "add_saved",
                  "rf_exchange", "rf_save", "rf_deact"}

(***************************************************************************)
(* Credential pool: actions                                                *)
(***************************************************************************)

SetTask(t, tk) == tasks' = [tasks EXCEPT ![t] = tk]

\* A new request or job takes the first free slot, once the server is serving.
CanStart(t) ==
    /\ mainPc = "serving"
    /\ ops > 0
    /\ tasks[t].pc = "done"
    /\ \A u \in Tasks : u < t => tasks[u].pc # "done"

PoolInit ==
    /\ now = 0
    /\ db \in InitialDbs
    /\ heap = <<>>
    /\ tokens = <<>>
    /\ tasks = [t \in Tasks |-> IdleTask]
    /\ processingDeviceCodes = {}
    /\ authorized = {}
    /\ mainPc = "init"
    /\ ops \in {MaxOps, MaxRefreshOps}

\* main(): loadFromDatabase(), one entry per active record.
LoadFromDatabase ==
    /\ mainPc = "init"
    /\ LET ids == GetAllTokens(db)
       IN  /\ heap' = [k \in 1..Len(ids) |-> EntryOfRecord(ids[k], db[ids[k]])]
           /\ tokens' = [k \in 1..Len(ids) |-> [id |-> ids[k], ref |-> k]]
    /\ mainPc' = "serving"
    /\ UNCHANGED <<now, db, tasks, processingDeviceCodes, authorized, ops, restOfPool>>

\* Time passes.
Tick ==
    /\ mainPc = "serving"
    /\ ops > 0
    /\ now' = now + 1
    /\ ops' = ops - 1
    /\ UNCHANGED <<db, heap, tokens, tasks, processingDeviceCodes, authorized, mainPc, restOfPool>>

\* POST /auth/tokens: addToken(github_token) is called; the identity lookup goes out.
AddStart(t) ==
    /\ CanStart(t)
    /\ \E raw \in RawCredentials :
         SetTask(t, [IdleTask EXCEPT !.op = "add", !.pc = "add_lookup", !.raw = raw])
    /\ ops' = ops - 1
    /\ UNCHANGED <<now, db, heap, tokens, processingDeviceCodes, authorized, mainPc, restOfPool>>

\* addToken after getGitHubUserForToken: it throws, or the entry of the user is
\* looked up; an existing entry takes the new credential at once.
AddLookup(t) ==
    /\ tasks[t].pc = "add_lookup"
    /\ LET tk == tasks[t]
           r == FindByUsername(heap, tokens, UserOf(tk.raw))
           failed == Answer(tk, 500, "error", 0)
       IN  \/ /\ SetTask(t, failed)
              /\ processingDeviceCodes' = ReleaseDeviceCode(tk, failed)
              /\ UNCHANGED heap
           \/ /\ r # NoRef
              /\ heap' = [heap EXCEPT ![r] = NoFailedExchanges(UpdateExisting(@, tk.raw))]
              /\ SetTask(t, [tk EXCEPT !.ref = r, !.pc = "add_updDb"])
              /\ UNCHANGED processingDeviceCodes
           \/ /\ r = NoRef
              /\ SetTask(t, [tk EXCEPT !.pc = "add_save"])
              /\ UNCHANGED <<heap, processingDeviceCodes>>
    /\ UNCHANGED <<now, db, tokens, authorized, mainPc, ops, restOfPool>>

\* addToken, update path, after updateGithubToken: the refresh is called.
AddUpdateDb(t) ==
    /\ tasks[t].pc = "add_updDb"
    /\ db' = UpdateGithubToken(db, heap[tasks[t].ref].id, tasks[t].raw)
    /\ SetTask(t, StartRefresh(tasks[t], heap))
    /\ UNCHANGED <<now, heap, tokens, processingDeviceCodes, authorized, mainPc, ops, restOfPool>>

\* addToken, new user: the store executes saveToken.
AddSave(t) ==
    /\ tasks[t].pc = "add_save"
    /\ LET r == SaveToken(db, tasks[t].raw, UserOf(tasks[t].raw))
       IN  /\ db' = r.db
           /\ SetTask(t, [tasks[t] EXCEPT !.id = r.id, !.pc = "add_saved"])
    /\ UNCHANGED <<now, heap, tokens, processingDeviceCodes, authorized, mainPc, ops, restOfPool>>

\* addToken, new user, after saveToken: the entry is created and put in the map,
\* and the refresh is called.
AddSaved(t) ==
    /\ tasks[t].pc = "add_saved"
    /\ LET tk == tasks[t]
           ref == Len(heap) + 1
       IN  /\ heap' = Append(heap, NewEntry(tk.id, tk.raw, UserOf(tk.raw)))
           /\ tokens' = MapSet(tokens, tk.id, ref)
           /\ SetTask(t, StartRefresh([tk EXCEPT !.ref = ref], heap'))
    /\ UNCHANGED <<now, db, processingDeviceCodes, authorized, mainPc, ops, restOfPool>>

\* refreshCopilotTokenForEntry after getCopilotTokenForGithubToken: the exchange
\* succeeded (the token is stored and updateCopilotToken is called) or failed
\* (the catch block; past the threshold deactivateToken is called).
RefreshExchange(t) ==
    /\ tasks[t].pc = "rf_exchange"
    /\ LET tk == tasks[t]
           r == tk.ref
       IN  \/ LET tok == CopilotTokenFor(tk.rfRaw)
                  exp == now + 1
              IN  /\ heap' = [heap EXCEPT ![r] = NoFailedExchanges(RefreshSucceeded(@, tok, exp))]
                  /\ SetTask(t, [tk EXCEPT !.pc = "rf_save", !.tok = tok, !.exp = exp])
                  /\ UNCHANGED processingDeviceCodes
           \/ /\ heap' = [heap EXCEPT ![r] = ExchangeFailed(RefreshFailed(@))]
              /\ IF heap'[r].errorCount >= DeactivationThreshold
                 THEN /\ SetTask(t, [tk EXCEPT !.pc = "rf_deact"])
                      /\ UNCHANGED processingDeviceCodes
                 ELSE /\ SetTask(t, AfterRefresh(tk, heap'))
                      /\ processingDeviceCodes' = ReleaseDeviceCode(tk, AfterRefresh(tk, heap'))
    /\ UNCHANGED <<now, db, tokens, authorized, mainPc, ops, restOfPool>>

\* refreshCopilotTokenForEntry after updateCopilotToken.
RefreshSave(t) ==
    /\ tasks[t].pc = "rf_save"
    /\ LET tk == tasks[t]
           after == AfterRefresh(tk, heap)
       IN  /\ db' = UpdateCopilotToken(db, heap[tk.ref].id, tk.tok, tk.exp)
           /\ SetTask(t, after)
           /\ processingDeviceCodes' = ReleaseDeviceCode(tk, after)
    /\ UNCHANGED <<now, heap, tokens, authorized, mainPc, ops, restOfPool>>

\* refreshCopilotTokenForEntry after deactivateToken; the error is rethrown.
RefreshDeactivate(t) ==
    /\ tasks[t].pc = "rf_deact"
    /\ LET tk == tasks[t]
           after == AfterRefresh(tk, heap)
       IN  /\ db' = DeactivateToken(db, heap[tk.ref].id)
           /\ SetTask(t, after)
           /\ processingDeviceCodes' = ReleaseDeviceCode(tk, after)
    /\ UNCHANGED <<now, heap, tokens, authorized, mainPc, ops, restOfPool>>

\* refreshCopilotTokenForEntry when deactivateToken throws: the row stays as it
\* is and the error of the store goes to the caller of the refresh.
RefreshDeactivateFails(t) ==
    /\ tasks[t].pc = "rf_deact"
    /\ LET tk == tasks[t]
           after == AfterRefresh(tk, heap)
       IN  /\ SetTask(t, after)
           /\ processingDeviceCodes' = ReleaseDeviceCode(tk, after)
    /\ UNCHANGED <<now, db, heap, tokens, authorized, mainPc, ops, restOfPool>>

\* refreshAllCopilotTokens(): the snapshot of the entries is taken and the first
\* active one is refreshed.
RefreshAllStart(t) ==
    /\ CanStart(t)
    /\ SetTask(t, ContinueRefreshAll(
                    [IdleTask EXCEPT !.op = "refreshAll",
                                     !.queue = [k \in 1..Len(tokens) |-> tokens[k].ref]],
                    heap))
    /\ ops' = ops - 1
    /\ UNCHANGED <<now, db, heap, tokens, processingDeviceCodes, authorized, mainPc, restOfPool>>

\* DELETE /auth/tokens/:id: removeToken(id) answers false (404) for an unknown id
\* or calls deactivateToken.
RemoveStart(t) ==
    /\ CanStart(t)
    /\ \E id \in 1..(Len(db) + 1) :
         IF MapHas(tokens, id)
         THEN SetTask(t, [IdleTask EXCEPT !.op = "remove", !.pc = "rm_deact", !.id = id])
         ELSE SetTask(t, [IdleTask EXCEPT !.op = "remove", !.id = id, !.status = 404,
                                          !.result = "not_found"])
    /\ ops' = ops - 1
    /\ UNCHANGED <<now, db, heap, tokens, processingDeviceCodes, authorized, mainPc, restOfPool>>

\* removeToken after deactivateToken: the entry leaves the map.
RemoveDeactivate(t) ==
    /\ tasks[t].pc = "rm_deact"
    /\ db' = DeactivateToken(db, tasks[t].id)
    /\ tokens' = MapDelete(tokens, tasks[t].id)
    /\ SetTask(t, [IdleTask EXCEPT !.op = "remove", !.id = tasks[t].id, !.status = 200,
                                   !.result = "removed"])
    /\ UNCHANGED <<now, heap, processingDeviceCodes, authorized, mainPc, ops, restOfPool>>

(***************************************************************************)
(* Gateway: middleware and route mounting (main.ts, auth-middleware)       *)
(***************************************************************************)

\* c.req.header(name) of a header the request does not carry; an unset
\* environment variable.
Undefined == "undefined"

\* `!x` of a string or undefined.
Falsy(x) == x = Undefined \/ x = ""

\* process.env.API_KEY and ENVIRONMENT === "Production".
ApiKeys == {Undefined, "", "k1"}

\* Values of the Authorization header, as the sequence of their pieces; " " is
\* one space, and <<>> is the header that is absent or empty (`if (authHeader)`).
AuthorizationHeaders ==
    { <<>>, <<"Bearer", " ", "k1">>, <<"bearer", " ", "k1">>, <<"Bearer", " ", "bad">>,
      <<"Basic", " ", "k1">>, <<"k1">>, <<"Bearer", " ">>, <<"Bearer", " ", " ", "k1">> }

KeyHeaders == {Undefined, "k1", "bad"}

Methods == {"GET", "POST", "DELETE"}

\* Request paths, as their segments.
Paths ==
    { <<>>, <<"token">>, <<"login">>, <<"openapi.json">>,
      <<"chat", "completions">>, <<"models">>, <<"embeddings">>,
      <<"v1", "chat", "completions">>, <<"v1", "models">>, <<"v1", "embeddings">>,
      <<"v1", "messages">>, <<"v1", "messages", "count_tokens">>,
      <<"v1beta", "models", "m:generateContent">>,
      <<"auth", "login">>, <<"auth", "complete">>, <<"auth", "tokens">>,
      <<"auth", "tokens", "all">>, <<"auth", "tokens", "7">> }

\* String.prototype.split(" ").
RECURSIVE SplitOnSpace(_, _)
SplitOnSpace(pieces, current) ==
    IF pieces = <<>> THEN << current >>
    ELSE IF Head(pieces) = " "
         THEN << current >> \o SplitOnSpace(Tail(pieces), "")
         ELSE SplitOnSpace(Tail(pieces), current \o Head(pieces))

ToLowerCase(x) == IF x \in {"Bearer", "BEARER", "bearer"} THEN "bearer" ELSE x

\* safeCompare(a, b): equal lengths and equal bytes.
SafeCompare(a, b) == a = b

\* apiKeyAuth: the key the request provides, from Authorization: Bearer, then
\* x-api-key, then x-goog-api-key.
ProvidedKey(req) ==
    LET parts == IF req.authorization = <<>> THEN <<>>
                 ELSE SplitOnSpace(req.authorization, "")
        bearer == IF Len(parts) = 2 /\ ToLowerCase(parts[1]) = "bearer"
                  THEN parts[2] ELSE Undefined
        second == IF Falsy(bearer) THEN req.xApiKey ELSE bearer
    IN  IF Falsy(second) THEN req.xGoogApiKey ELSE second

\* apiKeyAuth()(c, next): "next", or the code of the 401 answer.
ApiKeyAuth(apiKey, req) ==
    IF Falsy(apiKey) THEN "next"
    ELSE IF Falsy(ProvidedKey(req)) THEN "missing_api_key"
    ELSE IF ~SafeCompare(ProvidedKey(req), apiKey) THEN "invalid_api_key"
    ELSE "next"

\* app.use("/chat/*"), app.use("/v1/*"), app.use("/v1beta/*"),
\* app.use("/embeddings"): the paths the authentication middleware runs on.
MiddlewareApplies(path) ==
    \/ Len(path) >= 1 /\ path[1] \in {"chat", "v1", "v1beta"}
    \/ path = <<"embeddings">>

\* registerUtilityRoutes and the /login and /openapi.json registrations.
UtilityHandler(method, path, isProduction) ==
    IF method # "GET" THEN Undefined
    ELSE CASE path = <<>> -> "root"
           [] path = <<"token">> -> "token"
           [] path \in {<<"login">>, <<"openapi.json">>} ->
                 IF isProduction THEN "productionBlockedHandler" ELSE "page"
           [] OTHER -> Undefined

\* registerAuthRoutes: the handler of a method and path.
AuthHandler(method, path) ==
    CASE method = "POST" /\ path = <<"auth", "login">> -> "authLogin"
      [] method = "POST" /\ path = <<"auth", "complete">> -> "authComplete"
      [] method = "GET" /\ path = <<"auth", "tokens">> -> "authListTokens"
      [] method = "DELETE" /\ path = <<"auth", "tokens", "all">> -> "authRemoveAll"
      [] method = "DELETE" /\ Len(path) = 3 /\ path[1] = "auth" /\ path[2] = "tokens"
            /\ path[3] # "all" -> "authRemoveToken"
      [] method = "POST" /\ path = <<"auth", "tokens">> -> "authAddToken"
      [] OTHER -> Undefined

AuthHandlers ==
    {"authLogin", "authComplete", "authListTokens", "authRemoveAll",
     "authRemoveToken", "authAddToken"}

\* The auth routes registered although the process runs in production mode.
AuthRoutesRegistered_Always(isProduction) == TRUE

\* if (!isProduction) registerAuthRoutes(app)
AuthRoutesRegistered(isProduction) == ~isProduction

\* registerOpenAIRoutes mounted at "/" and "/v1", registerAnthropicRoutes at
\* "/v1", registerGeminiRoutes at "/v1beta": the handler of a method and path.
ModelHandler(method, path) ==
    LET rest == IF Len(path) >= 1 /\ path[1] = "v1" THEN Tail(path) ELSE path
    IN  CASE method = "POST" /\ rest = <<"chat", "completions">> -> "chatCompletions"
          [] method = "GET" /\ rest = <<"models">> -> "models"
          [] method = "POST" /\ rest = <<"embeddings">> -> "embeddings"
          [] method = "POST" /\ path = <<"v1", "messages">> -> "messages"
          [] method = "POST" /\ path = <<"v1", "messages", "count_tokens">> -> "countTokens"
          [] method = "POST" /\ Len(path) = 3 /\ path[1] = "v1beta" /\ path[2] = "models"
                -> "gemini"
          [] OTHER -> Undefined

ModelHandlers ==
    {"chatCompletions", "models", "embeddings", "messages", "countTokens", "gemini"}

\* The first registered handler that matches, in registration order.
RouteOf(method, path, isProduction) ==
    IF UtilityHandler(method, path, isProduction) # Undefined
    THEN UtilityHandler(method, path, isProduction)
    ELSE IF AuthRoutesRegistered(isProduction) /\ AuthHandler(method, path) # Undefined
    THEN AuthHandler(method, path)
    ELSE IF isProduction /\ Len(path) >= 1 /\ path[1] = "auth"
    THEN "productionBlockedHandler"
    ELSE IF ModelHandler(method, path) # Undefined
    THEN ModelHandler(method, path)
    ELSE "notFound"

NoRequest ==
    [method |-> "GET", path |-> <<>>, authorization |-> <<>>,
     xApiKey |-> Undefined, xGoogApiKey |-> Undefined]

\* The process with its environment, before a request has arrived.
GwIdle(apiKey, isProduction) ==
    [apiKey |-> apiKey, isProduction |-> isProduction, pc |-> "idle",
     req |-> NoRequest, status |-> 0, type |-> "", handler |-> Undefined]

GatewayInit == gw \in {GwIdle(k, p) : k \in ApiKeys, p \in BOOLEAN}

\* The gateway of the runs that look at the pool or at the translator only.
GatewayOff == gw = GwIdle(Undefined, FALSE)

\* A request arrives.
GwReceive ==
    /\ gw.pc = "idle"
    /\ \E m \in Methods, p \in Paths, a \in AuthorizationHeaders,
          x \in KeyHeaders, g \in KeyHeaders :
         gw' = [gw EXCEPT !.pc = "middleware",
                          !.req = [method |-> m, path |-> p, authorization |-> a,
                                   xApiKey |-> x, xGoogApiKey |-> g]]
    /\ UNCHANGED restOfGateway

\* The authentication middleware, on the paths it is mounted on: the request
\* goes on to the routes or is answered 401.
GwMiddleware ==
    /\ gw.pc = "middleware"
    /\ LET r == IF MiddlewareApplies(gw.req.path)
                THEN ApiKeyAuth(gw.apiKey, gw.req) ELSE "next"
       IN  gw' = IF r = "next" THEN [gw EXCEPT !.pc = "route"]
                 ELSE [gw EXCEPT !.pc = "answered", !.status = 401,
                                 !.type = "authentication_error"]
    /\ UNCHANGED restOfGateway

\* The routes: the handler the request reaches and the class of its answer.
GwRoute ==
    /\ gw.pc = "route"
    /\ LET h == RouteOf(gw.req.method, gw.req.path, gw.isProduction)
       IN  gw' = CASE h = "productionBlockedHandler" ->
                        [gw EXCEPT !.pc = "answered", !.handler = h, !.status = 403,
                                   !.type = "forbidden"]
                   [] h = "notFound" ->
                        [gw EXCEPT !.pc = "answered", !.handler = h, !.status = 404]
                   [] OTHER ->
                        [gw EXCEPT !.pc = "answered", !.handler = h]
    /\ UNCHANGED restOfGateway

(***************************************************************************)
(* Request translation and token estimate (translation.ts, routes)         *)
(***************************************************************************)

\* Blocks and parts a request holds at most.
MaxBlocks == 3

RequestTexts == {"a", "ab"}

\* Ids of tool calls as the upstream response carries them.
ToolCallIds == {"tc1", "tc2"}

\* translateToAnthropic / translateOpenAIToGemini: the id of a tool call in the
\* response the client receives (id: toolCall.id).
ResponseToolCallId(toolCallId) == toolCallId

RECURSIVE Join(_, _)
Join(texts, sep) ==
    IF texts = <<>> THEN ""
    ELSE IF Len(texts) = 1 THEN texts[1]
    ELSE texts[1] \o sep \o Join(Tail(texts), sep)

RECURSIVE SumOf(_)
SumOf(numbers) == IF numbers = <<>> THEN 0 ELSE Head(numbers) + SumOf(Tail(numbers))

RECURSIVE Flatten(_)
Flatten(seqs) == IF seqs = <<>> THEN <<>> ELSE Head(seqs) \o Flatten(Tail(seqs))

Map(seq, Op(_)) == [k \in 1..Len(seq) |-> Op(seq[k])]

\* Math.ceil(totalChars / 4)
CeilDiv4(n) == (n + 3) \div 4

\* A message of the canonical (OpenAI) payload. content is a string
\* (kind "string"), an array of parts (kind "parts") or null (kind "null").
Message(role, kind, text, parts, toolCallId, toolCalls) ==
    [role |-> role, kind |-> kind, text |-> text, parts |-> parts,
     tool_call_id |-> toolCallId, tool_calls |-> toolCalls, answers |-> Undefined]

TextMessage(role, text) == Message(role, "string", text, <<>>, Undefined, <<>>)

\* A tool message; answers is the upstream tool call whose result it carries.
ToolMessage(text, toolCallId, call) ==
    [Message("tool", "string", text, <<>>, toolCallId, <<>>) EXCEPT !.answers = call]

\* ---- Dialect A (Anthropic) ----

AnthropicBlock(type, text, id) == [type |-> type, text |-> text, id |-> id]

\* Content blocks of a user message (text, image, tool_result with its
\* tool_use_id and a string content) and of an assistant message (text,
\* thinking, tool_use with its id).
AnthropicBlocks(role) ==
    IF role = "user"
    THEN {AnthropicBlock("text", "ab", ""), AnthropicBlock("image", "", "")}
         \cup {AnthropicBlock("tool_result", "a", ResponseToolCallId(i)) : i \in ToolCallIds}
    ELSE {AnthropicBlock("text", "ab", ""), AnthropicBlock("thinking", "a", "")}
         \cup {AnthropicBlock("tool_use", "", ResponseToolCallId(i)) : i \in ToolCallIds}

\* AnthropicMessage: content is a string or an array of blocks.
AnthropicMessage(role, kind, text, blocks) ==
    [role |-> role, kind |-> kind, text |-> text, blocks |-> blocks]

\* The messages that hold n blocks; a string content counts as one.
AnthropicMessagesOfSize(n) ==
    UNION {{AnthropicMessage(r, "blocks", "", b) : b \in [1..n -> AnthropicBlocks(r)]} :
              r \in {"user", "assistant"}}
    \cup (IF n = 1
          THEN {AnthropicMessage(r, "string", t, <<>>) :
                   r \in {"user", "assistant"}, t \in {"", "ab"}}
          ELSE {})

RECURSIVE AnthropicMessageSeqs(_)
AnthropicMessageSeqs(n) ==
    {<<>>} \cup
    UNION {{<<m>> \o rest : m \in AnthropicMessagesOfSize(k),
                            rest \in AnthropicMessageSeqs(n - k)} : k \in 1..n}

\* payload.system: undefined, a string, or an array of text blocks.
AnthropicSystems ==
    {[kind |-> "undefined", text |-> "", blocks |-> <<>>],
     [kind |-> "string", text |-> "ab", blocks |-> <<>>],
     [kind |-> "blocks", text |-> "", blocks |-> <<"ab", "ab">>]}

AnthropicPayloads ==
    {[dialect |-> "A", system |-> s, messages |-> m] :
        s \in AnthropicSystems, m \in AnthropicMessageSeqs(MaxBlocks)}

\* handleSystemPrompt
HandleSystemPrompt(system) ==
    IF system.kind = "undefined" \/ (system.kind = "string" /\ system.text = "")
    THEN <<>>
    ELSE IF system.kind = "string"
    THEN << TextMessage("system", system.text) >>
    ELSE << TextMessage("system", Join(system.blocks, "\n\n")) >>

IsTextual(block) == block.type \in {"text", "thinking"}

\* mapContent of an array of blocks.
MapContent(role, blocks) ==
    IF \A k \in 1..Len(blocks) : blocks[k].type # "image"
    THEN TextMessage(role,
            Join(Map(SelectSeq(blocks, IsTextual), LAMBDA b : b.text), "\n\n"))
    ELSE Message(role, "parts", "",
            Map(SelectSeq(blocks, LAMBDA b : b.type \in {"text", "thinking", "image"}),
                LAMBDA b : IF b.type = "image"
                           THEN [type |-> "image_url", text |-> ""]
                           ELSE [type |-> "text", text |-> b.text]),
            Undefined, <<>>)

\* handleUserMessage
HandleUserMessage(message) ==
    IF message.kind = "string"
    THEN << TextMessage("user", message.text) >>
    ELSE LET toolResultBlocks == SelectSeq(message.blocks, LAMBDA b : b.type = "tool_result")
             otherBlocks == SelectSeq(message.blocks, LAMBDA b : b.type # "tool_result")
         IN  Map(toolResultBlocks,
                 LAMBDA b : ToolMessage(b.text, b.id, b.id))
             \o (IF otherBlocks # <<>> THEN << MapContent("user", otherBlocks) >> ELSE <<>>)

\* handleAssistantMessage
HandleAssistantMessage(message) ==
    IF message.kind = "string"
    THEN << TextMessage("assistant", message.text) >>
    ELSE LET toolUseBlocks == SelectSeq(message.blocks, LAMBDA b : b.type = "tool_use")
             textBlocks == SelectSeq(message.blocks, LAMBDA b : b.type = "text")
             thinkingBlocks == SelectSeq(message.blocks, LAMBDA b : b.type = "thinking")
             allTextContent ==
                 Join(Map(textBlocks \o thinkingBlocks, LAMBDA b : b.text), "\n\n")
         IN  IF toolUseBlocks # <<>>
             THEN << Message("assistant",
                             IF allTextContent = "" THEN "null" ELSE "string",
                             allTextContent, <<>>, Undefined,
                             Map(toolUseBlocks, LAMBDA b : [id |-> b.id, call |-> b.id])) >>
             ELSE << MapContent("assistant", message.blocks) >>

\* translateAnthropicMessagesToOpenAI
TranslateAnthropicMessagesToOpenAI(anthropicMessages, system) ==
    HandleSystemPrompt(system)
    \o Flatten(Map(anthropicMessages,
                   LAMBDA m : IF m.role = "user" THEN HandleUserMessage(m)
                              ELSE HandleAssistantMessage(m)))

\* POST /messages/count_tokens: the characters counted in a canonical message.
CanonicalChars(msg) ==
    CASE msg.kind = "string" -> Len(msg.text)
      [] msg.kind = "parts" ->
            SumOf(Map(msg.parts, LAMBDA p : IF p.type = "text" THEN Len(p.text) ELSE 0))
      [] OTHER -> 0

\* POST /messages/count_tokens: input_tokens.
AnthropicCountTokens(payload) ==
    CeilDiv4(SumOf(Map(TranslateAnthropicMessagesToOpenAI(payload.messages, payload.system),
                       CanonicalChars)))

\* ---- Dialect G (Gemini) ----

\* A part: text, inlineData, functionCall (id optional) or functionResponse (id).
\* call is the upstream tool call the part is about.
GeminiPart(kind, text, id, call) == [kind |-> kind, text |-> text, id |-> id, call |-> call]

\* The parts of a user content (text, inlineData, functionResponse) and of a
\* model content (text, functionCall with or without the id it was given).
GeminiParts(role) ==
    {GeminiPart("text", "ab", Undefined, Undefined),
     GeminiPart("text", "", Undefined, Undefined)}
    \cup (IF role = "user"
          THEN {GeminiPart("inlineData", "", Undefined, Undefined)}
               \cup {GeminiPart("functionResponse", "", ResponseToolCallId(c), c) :
                        c \in ToolCallIds}
          ELSE UNION {{GeminiPart("functionCall", "", i, c) :
                          i \in {Undefined, ResponseToolCallId(c)}} : c \in ToolCallIds})

GeminiContentsOfSize(n) ==
    UNION {{[role |-> r, parts |-> p] : p \in [1..n -> GeminiParts(r)]} :
              r \in {"user", "model"}}

RECURSIVE GeminiContentSeqs(_)
GeminiContentSeqs(n) ==
    {<<>>} \cup
    UNION {{<<c>> \o rest : c \in GeminiContentsOfSize(k),
                            rest \in GeminiContentSeqs(n - k)} : k \in 1..n}

\* systemInstruction: undefined (kind "undefined") or a content with text parts.
GeminiSystems ==
    {[kind |-> "undefined", parts |-> <<>>],
     [kind |-> "content", parts |-> <<"ab">>],
     [kind |-> "content", parts |-> <<"ab", "ab">>]}

GeminiPayloads ==
    {[dialect |-> "G", system |-> s, messages |-> m] :
        s \in GeminiSystems, m \in GeminiContentSeqs(MaxBlocks)}

\* translateGeminiToOpenAI: the messages of one content.
TranslateGeminiContent(content) ==
    LET role == IF content.role = "model" THEN "assistant" ELSE "user"
        functionCalls == SelectSeq(content.parts, LAMBDA p : p.kind = "functionCall")
        functionResponses == SelectSeq(content.parts, LAMBDA p : p.kind = "functionResponse")
        textParts == SelectSeq(content.parts, LAMBDA p : p.kind = "text" /\ p.text # "")
        imageParts == SelectSeq(content.parts, LAMBDA p : p.kind = "inlineData")
        textContent == Join(Map(textParts, LAMBDA p : p.text), "\n")
    IN  IF functionCalls # <<>>
        THEN << Message("assistant", IF textContent = "" THEN "null" ELSE "string",
                        textContent, <<>>, Undefined,
                        [k \in 1..Len(functionCalls) |->
                            [id |-> IF Falsy(functionCalls[k].id)
                                    THEN "call_" \o ToString(k - 1)
                                    ELSE functionCalls[k].id,
                             call |-> functionCalls[k].call]]) >>
        ELSE IF functionResponses # <<>>
        THEN Map(functionResponses,
                 LAMBDA p : ToolMessage("{}", p.id, p.call))
        ELSE IF imageParts # <<>>
        THEN << Message(role, "parts", "",
                        Map(textParts, LAMBDA p : [type |-> "text", text |-> p.text])
                        \o Map(imageParts, LAMBDA p : [type |-> "image_url", text |-> ""]),
                        Undefined, <<>>) >>
        ELSE << TextMessage(role, textContent) >>

\* translateGeminiToOpenAI: messages
TranslateGeminiToOpenAI(request) ==
    LET systemText == IF request.system.kind = "undefined" THEN ""
                      ELSE Join(SelectSeq(request.system.parts, LAMBDA t : t # ""), "\n")
    IN  (IF systemText # "" THEN << TextMessage("system", systemText) >> ELSE <<>>)
        \o Flatten(Map(request.messages, TranslateGeminiContent))

\* countTokens branch: totalTokens.
GeminiCountTokens(request) ==
    CeilDiv4(
        SumOf(Map(Flatten(Map(request.messages, LAMBDA c : c.parts)),
                  LAMBDA p : IF p.kind = "text" /\ p.text # "" THEN Len(p.text) ELSE 0))
        + (IF request.system.kind = "undefined" THEN 0
           ELSE SumOf(Map(request.system.parts, LAMBDA t : Len(t)))))

\* ---- the endpoints ----

NoPayload == [dialect |-> "none", system |-> [kind |-> "undefined"], messages |-> <<>>]

TrIdle == [pc |-> "idle", payload |-> NoPayload, endpoint |-> "", canonical |-> <<>>,
           count |-> 0]

TranslateOff == tr = TrIdle

TranslateInit ==
    tr \in {[TrIdle EXCEPT !.pc = "received", !.payload = p] :
              p \in AnthropicPayloads \cup GeminiPayloads}

\* POST /v1/messages: the request is translated (and dispatched).
AnthropicMessages ==
    /\ tr.pc = "received" /\ tr.payload.dialect = "A"
    /\ tr' = [tr EXCEPT !.pc = "done", !.endpoint = "messages",
                !.canonical = TranslateAnthropicMessagesToOpenAI(tr.payload.messages,
                                                                 tr.payload.system)]
    /\ UNCHANGED restOfTranslate

\* POST /v1/messages/count_tokens
AnthropicCount ==
    /\ tr.pc = "received" /\ tr.payload.dialect = "A"
    /\ tr' = [tr EXCEPT !.pc = "done", !.endpoint = "count_tokens",
                !.count = AnthropicCountTokens(tr.payload)]
    /\ UNCHANGED restOfTranslate

\* POST /v1beta/models/m:generateContent
GeminiGenerate ==
    /\ tr.pc = "received" /\ tr.payload.dialect = "G"
    /\ tr' = [tr EXCEPT !.pc = "done", !.endpoint = "generateContent",
                !.canonical = TranslateGeminiToOpenAI(tr.payload)]
    /\ UNCHANGED restOfTranslate

\* POST /v1beta/models/m:countTokens
GeminiCount ==
    /\ tr.pc = "received" /\ tr.payload.dialect = "G"
    /\ tr' = [tr EXCEPT !.pc = "done", !.endpoint = "countTokens",
                !.count = GeminiCountTokens(tr.payload)]
    /\ UNCHANGED restOfTranslate

(***************************************************************************)
(* Device-code flow: the blocking poll loops                               *)
(***************************************************************************)

\* Polls a run of the loop makes at most.
MaxPolls == 3

\* What the identity provider answers to a poll of a device code that is
\* pending, authorized, denied or expired; request_failed is the answer that is
\* not ok.
IdpAnswers(idp) ==
    {"request_failed"} \cup
    CASE idp = "pending" -> {"authorization_pending", "slow_down"}
      [] idp = "authorized" -> {"token"}
      [] idp = "denied" -> {"access_denied"}
      [] OTHER -> {"expired_token"}

\* pollAccessToken, one pass of the loop after checkAccessToken has returned:
\* the next position of the loop.
PollAccessTokenBranch(answer) ==
    IF answer = "token" THEN "returned"
    ELSE IF answer = "expired_token" THEN "failed"
    ELSE "sleep"

\* GitHubService.PollAccessTokenAsync, one pass of the loop.
PollAccessTokenAsyncBranch(answer) ==
    IF answer = "request_failed" THEN "sleep"
    ELSE IF answer = "token" THEN "returned"
    ELSE "sleep"

PollIdle == [impl |-> "none", pc |-> "off", idp |-> "pending", polls |-> 0, last |-> ""]

PollOff == poll = PollIdle

PollInit == poll \in {[PollIdle EXCEPT !.impl = i, !.pc = "check"] : i \in {"ts", "cs"}}

\* The user authorizes or denies the device code at the identity provider.
IdpDecide ==
    /\ poll.pc # "off" /\ poll.idp = "pending"
    /\ \E d \in {"authorized", "denied"} : poll' = [poll EXCEPT !.idp = d]
    /\ UNCHANGED restOfPoll

\* The device code expires.
IdpExpire ==
    /\ poll.pc # "off" /\ poll.idp \in {"pending", "denied"}
    /\ poll' = [poll EXCEPT !.idp = "expired"]
    /\ UNCHANGED restOfPoll

\* One poll of the loop and the branch on its result.
PollCheck ==
    /\ poll.pc = "check"
    /\ poll.polls < MaxPolls
    /\ \E a \in IdpAnswers(poll.idp) :
         poll' = [poll EXCEPT !.polls = @ + 1, !.last = a,
                              !.pc = IF poll.impl = "ts" THEN PollAccessTokenBranch(a)
                                     ELSE PollAccessTokenAsyncBranch(a)]
    /\ UNCHANGED restOfPoll

\* The sleep of the loop ends.
PollSleep ==
    /\ poll.pc = "sleep"
    /\ poll' = [poll EXCEPT !.pc = "check"]
    /\ UNCHANGED restOfPoll

(***************************************************************************)
(* Streaming translator                                                    *)
(***************************************************************************)

\* Number of upstream items one modelled stream carries at most.
MaxChunks == 3

NoIndex == 0 - 1

\* delta.tool_calls[i]: provider tool index, id, function.name, function.arguments.
\* A delta that introduces a tool call carries id and name; a later one carries
\* only an argument fragment.
ToolCallDeltas ==
    [index : {0, 1}, id : {"call"}, name : {"fn"}, arguments : {"", "a"}]
    \cup [index : {0, 1}, id : {""}, name : {""}, arguments : {"a", "b"}]
    \cup [index : {0}, id : {"call"}, name : {""}, arguments : {"a"}]

ToolCallLists ==
    {<<d>> : d \in ToolCallDeltas}
    \cup {<< [index |-> 0, id |-> "call", name |-> "fn", arguments |-> "a"],
             [index |-> 1, id |-> "call", name |-> "fn", arguments |-> "b"] >>,
          << [index |-> 1, id |-> "", name |-> "", arguments |-> "b"],
             [index |-> 0, id |-> "", name |-> "", arguments |-> "a"] >>}

Chunk(kind, content, toolCalls, finishReason) ==
    [kind |-> kind, content |-> content, toolCalls |-> toolCalls,
     finishReason |-> finishReason]

\* One item of the upstream stream: a chunk with a choice (kind "chunk"), a chunk
\* whose choices list is empty (kind "nochoice") or an event without data (kind
\* "nodata"). The chunks with a choice: a text delta, tool-call deltas, a bare
\* finish_reason, an empty delta, and chunks that combine them.
Chunks ==
    {Chunk("chunk", "t", <<>>, ""), Chunk("chunk", "", <<>>, "stop"),
     Chunk("chunk", "", <<>>, "")}
    \cup {Chunk("chunk", "", tcs, "") : tcs \in ToolCallLists}
    \cup {Chunk("chunk", "t", << [index |-> 0, id |-> "call", name |-> "fn", arguments |-> "a"] >>, "stop"),
          Chunk("chunk", "t", << [index |-> 0, id |-> "", name |-> "", arguments |-> "b"] >>, ""),
          Chunk("chunk", "", << [index |-> 1, id |-> "", name |-> "", arguments |-> "b"] >>, "tool_calls")}
    \cup {Chunk("nochoice", "", <<>>, ""), Chunk("nodata", "", <<>>, "")}

Event(type, index, kind, data, tool) ==
    [type |-> type, index |-> index, kind |-> kind, data |-> data, tool |-> tool]

NewStreamState ==
    [MessageStartSent |-> FALSE, ContentBlockIndex |-> 0,
     ContentBlockOpen |-> FALSE, ToolCalls |-> <<>>]

\* ToolCalls is a dictionary: provider tool index -> AnthropicBlockIndex. It is
\* kept as a sequence of <<toolIndex, blockIndex>> pairs, one per key.
HasToolCall(st, ti) == \E k \in 1..Len(st.ToolCalls) : st.ToolCalls[k][1] = ti

ToolBlockIndex(st, ti) ==
    LET k == CHOOSE j \in 1..Len(st.ToolCalls) : st.ToolCalls[j][1] = ti
    IN  st.ToolCalls[k][2]

SetToolCall(st, ti, bi) ==
    IF HasToolCall(st, ti)
    THEN [k \in 1..Len(st.ToolCalls) |->
            IF st.ToolCalls[k][1] = ti THEN <<ti, bi>> ELSE st.ToolCalls[k]]
    ELSE Append(st.ToolCalls, <<ti, bi>>)

IsToolBlockOpen(st) ==
    /\ st.ContentBlockOpen
    /\ \E k \in 1..Len(st.ToolCalls) : st.ToolCalls[k][2] = st.ContentBlockIndex

MapStopReason(finishReason) ==
    CASE finishReason = "stop" -> "end_turn"
      [] finishReason = "length" -> "max_tokens"
      [] finishReason = "tool_calls" -> "tool_use"
      [] finishReason = "content_filter" -> "end_turn"
      [] OTHER -> "null"

\* A message start that does not record that it was sent.
MessageStartStep_Unrecorded(p) ==
    IF ~p.st.MessageStartSent
    THEN [st |-> p.st,
          ev |-> Append(p.ev, Event("message_start", NoIndex, "", "", NoIndex))]
    ELSE p

\* A translation step works on a pair [st, ev]: the state and the events so far.
MessageStartStep(p) ==
    IF ~p.st.MessageStartSent
    THEN [st |-> [p.st EXCEPT !.MessageStartSent = TRUE],
          ev |-> Append(p.ev, Event("message_start", NoIndex, "", "", NoIndex))]
    ELSE p

CloseBlock(p) ==
    [st |-> [p.st EXCEPT !.ContentBlockIndex = @ + 1, !.ContentBlockOpen = FALSE],
     ev |-> Append(p.ev, Event("content_block_stop", p.st.ContentBlockIndex, "", "", NoIndex))]

TextStep(p, content) ==
    IF content = "" THEN p
    ELSE LET p1 == IF IsToolBlockOpen(p.st) THEN CloseBlock(p) ELSE p
             p2 == IF ~p1.st.ContentBlockOpen
                   THEN [st |-> [p1.st EXCEPT !.ContentBlockOpen = TRUE],
                         ev |-> Append(p1.ev, Event("content_block_start",
                                   p1.st.ContentBlockIndex, "text", "", NoIndex))]
                   ELSE p1
         IN  [st |-> p2.st,
              ev |-> Append(p2.ev, Event("content_block_delta",
                        p2.st.ContentBlockIndex, "text_delta", content, NoIndex))]

\* Variant: a tool-use block is started without closing the block that is open.
ToolIntroStep_NoClose(p, tc) ==
    IF tc.id # "" /\ tc.name # ""
    THEN [st |-> [p.st EXCEPT !.ToolCalls = SetToolCall(p.st, tc.index, p.st.ContentBlockIndex),
                              !.ContentBlockOpen = TRUE],
          ev |-> Append(p.ev, Event("content_block_start", p.st.ContentBlockIndex,
                                    "tool_use", tc.id, tc.index))]
    ELSE p

ToolIntroStep(p, tc) ==
    IF tc.id # "" /\ tc.name # ""
    THEN LET p1 == IF p.st.ContentBlockOpen THEN CloseBlock(p) ELSE p
             blockIndex == p1.st.ContentBlockIndex
         IN  [st |-> [p1.st EXCEPT !.ToolCalls = SetToolCall(p1.st, tc.index, blockIndex),
                                   !.ContentBlockOpen = TRUE],
              ev |-> Append(p1.ev, Event("content_block_start", blockIndex,
                                         "tool_use", tc.id, tc.index))]
    ELSE p

\* Variant: an argument fragment is forwarded only while its tool block is the
\* open block.
ToolArgsStep_OnlyOpen(p, tc) ==
    IF /\ tc.arguments # "" /\ HasToolCall(p.st, tc.index)
       /\ p.st.ContentBlockOpen
       /\ ToolBlockIndex(p.st, tc.index) = p.st.ContentBlockIndex
    THEN [st |-> p.st,
          ev |-> Append(p.ev, Event("content_block_delta",
                    ToolBlockIndex(p.st, tc.index), "input_json_delta",
                    tc.arguments, tc.index))]
    ELSE p

ToolArgsStep(p, tc) ==
    IF tc.arguments # "" /\ HasToolCall(p.st, tc.index)
    THEN [st |-> p.st,
          ev |-> Append(p.ev, Event("content_block_delta",
                    ToolBlockIndex(p.st, tc.index), "input_json_delta",
                    tc.arguments, tc.index))]
    ELSE p

RECURSIVE ToolCallsStep(_, _)
ToolCallsStep(p, tcs) ==
    IF tcs = <<>> THEN p
    ELSE ToolCallsStep(ToolArgsStep(ToolIntroStep(p, Head(tcs)), Head(tcs)), Tail(tcs))

\* A finish that emits message_delta before it closes the open block.
FinishStep_DeltaFirst(p, finishReason) ==
    IF finishReason = "" THEN p
    ELSE [st |-> [p.st EXCEPT !.ContentBlockOpen = FALSE],
          ev |-> p.ev
                 \o << Event("message_delta", NoIndex, "", MapStopReason(finishReason), NoIndex) >>
                 \o (IF p.st.ContentBlockOpen
                     THEN << Event("content_block_stop", p.st.ContentBlockIndex, "", "", NoIndex) >>
                     ELSE <<>>)
                 \o << Event("message_stop", NoIndex, "", "", NoIndex) >>]

FinishStep(p, finishReason) ==
    IF finishReason = "" THEN p
    ELSE LET p1 == IF p.st.ContentBlockOpen
                   THEN [st |-> [p.st EXCEPT !.ContentBlockOpen = FALSE],
                         ev |-> Append(p.ev, Event("content_block_stop",
                                   p.st.ContentBlockIndex, "", "", NoIndex))]
                   ELSE p
         IN  [st |-> p1.st,
              ev |-> p1.ev \o
                     << Event("message_delta", NoIndex, "", MapStopReason(finishReason), NoIndex),
                        Event("message_stop", NoIndex, "", "", NoIndex) >>]

\* TranslateChunkToAnthropicEvents(chunk, state): the new state and the events of
\* this chunk.
TranslateChunkToAnthropicEvents(chunk, st) ==
    IF chunk.kind = "nochoice" THEN [st |-> st, ev |-> <<>>]
    ELSE FinishStep(
           ToolCallsStep(
             TextStep(MessageStartStep([st |-> st, ev |-> <<>>]), chunk.content),
             chunk.toolCalls),
           chunk.finishReason)

\* The handler of the response: the TypeScript route ("ts") or the C#
\* controller ("cs"), with its client connected.
Handler(impl) == [impl |-> impl, connected |-> TRUE]

\* The loop goes on reading: in the route as long as the upstream stream lasts;
\* in the controller only while the client is connected, since the enumeration
\* of the upstream stream and every write carry HttpContext.RequestAborted.
LoopRuns == spc = "loop" /\ (client.connected \/ client.impl = "ts")

StreamInit ==
    /\ streamState = NewStreamState
    /\ events = <<>>
    /\ chunksIn = <<>>
    /\ spc = "loop"
    /\ client = Handler("ts")

\* One pass of the streaming loop over a chunk that is translated and written.
\* A write to a client that is gone reaches nobody: it is dropped, or it fails
\* and the error ends the loop.
StreamChunk ==
    /\ LoopRuns
    /\ Len(chunksIn) < MaxChunks
    /\ \E chunk \in Chunks :
         /\ chunk.kind \in {"chunk", "nochoice"}
         /\ LET r == TranslateChunkToAnthropicEvents(chunk, streamState)
            IN  /\ streamState' = r.st
                /\ IF client.connected
                   THEN events' = events \o r.ev /\ spc' = spc
                   ELSE /\ events' = events
                        /\ \/ spc' = spc
                           \/ r.ev # <<>> /\ spc' = "failed"
         /\ chunksIn' = Append(chunksIn, chunk)
    /\ UNCHANGED <<client, restOfStream>>

\* An event without data is skipped.
StreamSkip ==
    /\ LoopRuns
    /\ Len(chunksIn) < MaxChunks
    /\ \E chunk \in Chunks :
         /\ chunk.kind = "nodata"
         /\ chunksIn' = Append(chunksIn, chunk)
    /\ UNCHANGED <<streamState, events, spc, client, restOfStream>>

\* [DONE], or the end of the upstream stream, leaves the loop.
StreamDone ==
    /\ LoopRuns
    /\ spc' = "done"
    /\ UNCHANGED <<streamState, events, chunksIn, client, restOfStream>>

\* The downstream client closes the connection while the response streams.
ClientDisconnects ==
    /\ spc = "loop"
    /\ client.connected
    /\ client' = [client EXCEPT !.connected = FALSE]
    /\ UNCHANGED <<streamState, events, chunksIn, spc, restOfStream>>

\* HandleStreamingResponse, catch (OperationCanceledException): the pending
\* read or write is cancelled and the handler returns.
StreamCancelled ==
    /\ spc = "loop"
    /\ client.impl = "cs"
    /\ ~client.connected
    /\ spc' = "cancelled"
    /\ UNCHANGED <<streamState, events, chunksIn, client, restOfStream>>

StreamNext == StreamChunk \/ StreamSkip \/ StreamDone

DisconnectNext ==
    StreamChunk \/ StreamSkip \/ StreamDone \/ ClientDisconnects \/ StreamCancelled

\* One streaming response of either handler, whose client may disconnect.
DisconnectInit ==
    /\ PoolInit /\ ops = MaxOps /\ db = <<>>
    /\ streamState = NewStreamState /\ events = <<>> /\ chunksIn = <<>> /\ spc = "loop"
    /\ client \in {Handler("ts"), Handler("cs")}
    /\ GatewayOff /\ TranslateOff /\ PollOff

SpecDisconnect == DisconnectInit /\ [][DisconnectNext]_vars

\* One streaming response; the pool stays as constructed.
\* The translator alone: no stored records, no request in flight.
StreamOnlyInit == PoolInit /\ ops = MaxOps /\ db = <<>> /\ StreamInit /\ GatewayOff /\ TranslateOff /\ PollOff

SpecStream == StreamOnlyInit /\ [][StreamNext]_vars

(***************************************************************************)
(* Gemini streaming: translateChunkToGemini and the streamGenerateContent    *)
(* loop. The loop shares chunksIn, events and spc with the Anthropic loop:   *)
(* one modelled response is served by one of the two.                        *)
(***************************************************************************)

\* Argument texts. "a" followed by "b" is the text of one JSON object cut into
\* two fragments; "o" is the text of a whole object; a fragment alone is no
\* JSON text.
CompleteJson == {"ab", "o"}

\* JSON.parse(text): the object the text denotes, or a SyntaxError.
JsonParse(text) ==
    IF text \in CompleteJson THEN [ok |-> TRUE, value |-> <<"object", text>>]
    ELSE [ok |-> FALSE, value |-> <<"SyntaxError">>]

EmptyObject == <<"object", "{}">>

GeminiToolCallDeltas ==
    [index : {0}, id : {"call"}, name : {"fn"}, arguments : {"", "a", "ab", "o"}]
    \cup [index : {0}, id : {""}, name : {""}, arguments : {"b", "ab"}]
    \cup [index : {1}, id : {"call1"}, name : {"fn"}, arguments : {"o"}]

\* The upstream items of a Gemini stream: text, bare finish_reason, text with
\* finish_reason, an empty delta, tool-call deltas alone and with finish_reason,
\* a chunk without choices and an event without data.
GeminiStreamChunks ==
    {Chunk("chunk", "t", <<>>, ""), Chunk("chunk", "", <<>>, "stop"),
     Chunk("chunk", "t", <<>>, "stop"), Chunk("chunk", "", <<>>, ""),
     Chunk("chunk", "", <<>>, "tool_calls"), Chunk("chunk", "", <<>>, "length")}
    \cup {Chunk("chunk", "", <<d>>, "") : d \in GeminiToolCallDeltas}
    \cup {Chunk("chunk", "", << [index |-> 0, id |-> "call", name |-> "fn", arguments |-> "o"] >>, "tool_calls")}
    \cup {Chunk("nochoice", "", <<>>, ""), Chunk("nodata", "", <<>>, "")}

\* finishReasonMap[choice.finish_reason] || "OTHER"; "" when the choice has none.
GeminiFinishReason(finishReason) ==
    CASE finishReason = "" -> ""
      [] finishReason = "stop" -> "STOP"
      [] finishReason = "length" -> "MAX_TOKENS"
      [] finishReason = "tool_calls" -> "STOP"
      [] finishReason = "content_filter" -> "SAFETY"
      [] OTHER -> "OTHER"

TextPart(text) ==
    [kind |-> "text", text |-> text, id |-> "", name |-> "", args |-> <<>>]

FunctionCallPart(id, name, args) ==
    [kind |-> "functionCall", text |-> "", id |-> id, name |-> name, args |-> args]

\* The tool calls of a delta that carry a function name.
RECURSIVE NamedToolCalls(_)
NamedToolCalls(tcs) ==
    IF tcs = <<>> THEN <<>>
    ELSE (IF Head(tcs).name # "" THEN <<Head(tcs)>> ELSE <<>>)
         \o NamedToolCalls(Tail(tcs))

\* JSON.parse throws on the arguments of a named tool call of the chunk.
GeminiChunkThrows(chunk) ==
    LET named == NamedToolCalls(chunk.toolCalls)
    IN  \E k \in 1..Len(named) :
           named[k].arguments # "" /\ ~JsonParse(named[k].arguments).ok

\* The parts of the choice of a chunk: its text, then one functionCall per tool
\* call that carries a function name.
GeminiChunkParts(chunk) ==
    LET named == NamedToolCalls(chunk.toolCalls)
    IN  (IF chunk.content # "" THEN <<TextPart(chunk.content)>> ELSE <<>>)
        \o [k \in 1..Len(named) |->
               FunctionCallPart(named[k].id, named[k].name,
                   IF named[k].arguments # ""
                   THEN JsonParse(named[k].arguments).value
                   ELSE EmptyObject)]

\* The candidate of a choice: its parts and the mapped finish reason.
GeminiCandidate(parts, finishReason) ==
    [parts |-> parts, finishReason |-> GeminiFinishReason(finishReason)]

\* translateChunkToGemini(chunk).candidates: one candidate per choice that has
\* parts.
GeminiCandidates(chunk) ==
    IF chunk.kind # "chunk" THEN <<>>
    ELSE LET parts == GeminiChunkParts(chunk)
         IN  IF parts # <<>>
             THEN << GeminiCandidate(parts, chunk.finishReason) >>
             ELSE <<>>

\* One pass of the loop: the chunk is translated and written if it has a
\* candidate.
GeminiStreamChunk ==
    /\ spc = "loop"
    /\ Len(chunksIn) < MaxChunks
    /\ \E chunk \in GeminiStreamChunks :
         /\ chunk.kind \in {"chunk", "nochoice"}
         /\ ~GeminiChunkThrows(chunk)
         /\ events' = events \o GeminiCandidates(chunk)
         /\ chunksIn' = Append(chunksIn, chunk)
    /\ UNCHANGED <<streamState, spc, client, restOfStream>>

\* One pass of the loop in which JSON.parse throws: the error leaves the loop
\* and the callback of the stream; nothing is written for the chunk or after it.
GeminiStreamThrows ==
    /\ spc = "loop"
    /\ Len(chunksIn) < MaxChunks
    /\ \E chunk \in GeminiStreamChunks :
         /\ chunk.kind = "chunk"
         /\ GeminiChunkThrows(chunk)
         /\ chunksIn' = Append(chunksIn, chunk)
    /\ spc' = "failed"
    /\ UNCHANGED <<streamState, events, client, restOfStream>>

\* An event without data is skipped.
GeminiStreamSkip ==
    /\ spc = "loop"
    /\ Len(chunksIn) < MaxChunks
    /\ \E chunk \in GeminiStreamChunks :
         /\ chunk.kind = "nodata"
         /\ chunksIn' = Append(chunksIn, chunk)
    /\ UNCHANGED <<streamState, events, spc, client, restOfStream>>

GeminiStreamNext ==
    GeminiStreamChunk \/ GeminiStreamThrows \/ GeminiStreamSkip \/ StreamDone

SpecGeminiStream == StreamOnlyInit /\ [][GeminiStreamNext]_vars

\* copilotHeadersForEntry(entry): an upstream request carries the upstream token
\* the entry holds when the request is built.
Request(kind, e) == [kind |-> kind, authorization |-> e.copilotToken]

\* forwardError(c, error): the status of the answer.
ForwardErrorStatus(error) == IF error = "no_tokens" THEN 503 ELSE 500

\* POST /chat/completions: getRandomTokenEntry(); 503 when it returns null;
\* otherwise the models of the entry are fetched if it has none, or the
\* completion request is sent.
ChatStart(t) ==
    /\ CanStart(t)
    /\ LET active == GetActiveTokenEntries(heap, tokens)
       IN  IF active = <<>>
           THEN /\ SetTask(t, [IdleTask EXCEPT !.op = "chat", !.status = 503,
                                               !.result = "no_tokens"])
                /\ UNCHANGED heap
           ELSE \E k \in 1..Len(active) :
                  LET r == active[k].ref
                      e == MarkUsed(heap[r], now)
                  IN  /\ heap' = [heap EXCEPT ![r] = e]
                      /\ SetTask(t, [IdleTask EXCEPT
                           !.op = "chat", !.ref = r,
                           !.pc = IF e.models THEN "chat_wait" ELSE "chat_models",
                           !.sent = << Request(IF e.models THEN "chat" ELSE "models", e) >>])
    /\ ops' = ops - 1
    /\ UNCHANGED <<now, db, tokens, processingDeviceCodes, authorized, mainPc, restOfPool>>

\* POST /chat/completions after getModels(tokenEntry): the models are cached, or
\* the failure is reported and swallowed; then the completion request is sent.
ChatModels(t) ==
    /\ tasks[t].pc = "chat_models"
    /\ LET tk == tasks[t]
           r == tk.ref
       IN  /\ \/ heap' = [heap EXCEPT ![r].models = TRUE]
              \/ heap' = ReportError(heap, tokens, heap[r].id)
           /\ SetTask(t, [tk EXCEPT !.pc = "chat_wait",
                                    !.sent = Append(@, Request("chat", heap'[r]))])
    /\ UNCHANGED <<now, db, tokens, processingDeviceCodes, authorized, mainPc, ops, restOfPool>>

\* createChatCompletions(payload, tokenEntry) after the upstream answer: it is
\* forwarded, or the failure is reported to the pool and surfaced.
ChatResponse(t) ==
    /\ tasks[t].pc = "chat_wait"
    /\ LET tk == tasks[t]
       IN  \/ /\ SetTask(t, Answer(tk, 200, "ok", heap[tk.ref].id))
              /\ UNCHANGED heap
           \/ /\ heap' = ReportError(heap, tokens, heap[tk.ref].id)
              /\ SetTask(t, Answer(tk, ForwardErrorStatus("upstream"), "upstream_error",
                                   heap[tk.ref].id))
    /\ UNCHANGED <<now, db, tokens, processingDeviceCodes, authorized, mainPc, ops, restOfPool>>

\* createEmbeddings after fetch: the answer is forwarded, or (!response.ok) the
\* failure is reported to the pool and thrown.
UpstreamResponse(t) ==
    /\ tasks[t].pc = "emb_wait"
    /\ LET tk == tasks[t]
       IN  \/ /\ SetTask(t, Answer(tk, 200, "ok", heap[tk.ref].id))
              /\ UNCHANGED heap
           \/ /\ heap' = ReportError(heap, tokens, heap[tk.ref].id)
              /\ SetTask(t, Answer(tk, ForwardErrorStatus("upstream"), "upstream_error",
                                   heap[tk.ref].id))
    /\ UNCHANGED <<now, db, tokens, processingDeviceCodes, authorized, mainPc, ops, restOfPool>>

\* POST /embeddings: createEmbeddings(payload) takes getRandomTokenEntry(), throws
\* when it returns null, otherwise sends the request.
EmbedStart(t) ==
    /\ CanStart(t)
    /\ LET active == GetActiveTokenEntries(heap, tokens)
       IN  IF active = <<>>
           THEN /\ SetTask(t, [IdleTask EXCEPT !.op = "embed",
                                               !.status = ForwardErrorStatus("no_tokens"),
                                               !.result = "no_tokens"])
                /\ UNCHANGED heap
           ELSE \E k \in 1..Len(active) :
                  LET r == active[k].ref
                      e == MarkUsed(heap[r], now)
                  IN  /\ heap' = [heap EXCEPT ![r] = e]
                      /\ SetTask(t, [IdleTask EXCEPT !.op = "embed", !.ref = r,
                                                     !.pc = "emb_wait",
                                                     !.sent = << Request("embeddings", e) >>])
    /\ ops' = ops - 1
    /\ UNCHANGED <<now, db, tokens, processingDeviceCodes, authorized, mainPc, restOfPool>>

(***************************************************************************)
(* /auth/complete (routes/auth/routes.ts)                                  *)
(***************************************************************************)

\* A membership test that never finds the device code.
IsProcessing_Never(set, dc) == FALSE

\* processingDeviceCodes.has(device_code)
IsProcessing(set, dc) == dc \in set

PollErrors == {"authorization_pending", "slow_down", "expired_token", "access_denied",
               "other", "none"}

\* An answer that tells every poll result without access token as pending.
PollAnswer_AlwaysPending(tk, err) == Answer(tk, 200, "pending", 0)

\* The answer of /auth/complete to a poll result without access token.
PollAnswer(tk, err) ==
    CASE err = "authorization_pending" -> Answer(tk, 200, "pending", 0)
      [] err = "slow_down" -> Answer(tk, 200, "slow_down", 0)
      [] err = "expired_token" -> Answer(tk, 400, "expired", 0)
      [] err = "access_denied" -> Answer(tk, 400, "denied", 0)
      [] err = "none" -> Answer(tk, 200, "pending", 0)
      [] OTHER -> Answer(tk, 400, "auth_error", 0)

\* The user authorizes a device code at the identity provider.
Authorize ==
    /\ mainPc = "serving"
    /\ \E dc \in DeviceCodes : dc \notin authorized /\ authorized' = authorized \cup {dc}
    /\ UNCHANGED <<now, db, heap, tokens, tasks, processingDeviceCodes, mainPc, ops, restOfPool>>

\* POST /auth/complete: checkAccessToken(device_code) is called.
CompleteStart(t) ==
    /\ CanStart(t)
    /\ \E dc \in DeviceCodes :
         SetTask(t, [IdleTask EXCEPT !.op = "complete", !.pc = "cp_check", !.dc = dc])
    /\ ops' = ops - 1
    /\ UNCHANGED <<now, db, heap, tokens, processingDeviceCodes, authorized, mainPc, restOfPool>>

\* POST /auth/complete after checkAccessToken, whose result polled records: an
\* error result is answered; with an access token the device code is looked up in the single-flight set, and
\* either "processing" is answered or the code is added and addToken is called.
CompleteCheck(t) ==
    /\ tasks[t].pc = "cp_check"
    /\ LET polled(result) == [tasks[t] EXCEPT !.polled = Append(@, result)]
           tk == polled("token")
       IN  \/ /\ \E err \in PollErrors : SetTask(t, PollAnswer(polled(err), err))
              /\ UNCHANGED processingDeviceCodes
           \/ /\ tk.dc \in authorized
              /\ IF IsProcessing(processingDeviceCodes, tk.dc)
                 THEN /\ SetTask(t, Answer(tk, 200, "processing", 0))
                      /\ UNCHANGED processingDeviceCodes
                 ELSE /\ processingDeviceCodes' = processingDeviceCodes \cup {tk.dc}
                      /\ SetTask(t, [tk EXCEPT !.pc = "add_lookup",
                                               !.raw = AccessTokenOf(tk.dc)])
    /\ UNCHANGED <<now, db, heap, tokens, authorized, mainPc, ops, restOfPool>>

(***************************************************************************)
(* Specifications                                                          *)
(***************************************************************************)

\* The credential pool under direct additions, refresh passes, removals and
\* dispatched client requests.
PoolNext ==
    \/ LoadFromDatabase
    \/ Tick
    \/ \E t \in Tasks :
         \/ AddStart(t) \/ AddLookup(t) \/ AddUpdateDb(t) \/ AddSave(t) \/ AddSaved(t)
         \/ RefreshExchange(t) \/ RefreshSave(t) \/ RefreshDeactivate(t)
         \/ RefreshAllStart(t)
         \/ RemoveStart(t) \/ RemoveDeactivate(t)
         \/ ChatStart(t) \/ ChatModels(t) \/ ChatResponse(t)
         \/ EmbedStart(t) \/ UpstreamResponse(t)

Init == PoolInit /\ ops = MaxOps /\ StreamInit /\ GatewayOff /\ TranslateOff /\ PollOff

Spec == Init /\ [][PoolNext]_vars

\* The refresh cycle: additions, refresh passes and dispatched requests that
\* report errors.
RefreshNext ==
    \/ LoadFromDatabase
    \/ \E t \in Tasks :
         \/ AddStart(t) \/ AddLookup(t) \/ AddUpdateDb(t) \/ AddSave(t) \/ AddSaved(t)
         \/ RefreshExchange(t) \/ RefreshSave(t) \/ RefreshDeactivate(t)
         \/ RefreshAllStart(t)
         \/ EmbedStart(t) \/ UpstreamResponse(t)

RefreshInit == PoolInit /\ ops = MaxRefreshOps /\ StreamInit /\ GatewayOff /\ TranslateOff /\ PollOff

SpecRefresh == RefreshInit /\ [][RefreshNext]_vars

\* Refresh passes alone, with a store that may fail to record a deactivation.
PassNext ==
    \/ LoadFromDatabase
    \/ \E t \in Tasks :
         \/ RefreshAllStart(t)
         \/ RefreshExchange(t) \/ RefreshSave(t)
         \/ RefreshDeactivate(t) \/ RefreshDeactivateFails(t)

SpecPass == RefreshInit /\ [][PassNext]_vars

\* The process as main() starts it: the load, then the server with its
\* credential additions and client requests. main() starts no timer and calls
\* refreshAllCopilotTokens nowhere, so no refresh pass is among the steps.
ServeNext ==
    \/ LoadFromDatabase
    \/ Tick
    \/ \E t \in Tasks :
         \/ AddStart(t) \/ AddLookup(t) \/ AddUpdateDb(t) \/ AddSave(t) \/ AddSaved(t)
         \/ RefreshExchange(t) \/ RefreshSave(t) \/ RefreshDeactivate(t)
         \/ EmbedStart(t) \/ UpstreamResponse(t)

\* Every step the process can take is taken in the end.
SpecServe == Init /\ [][ServeNext]_vars /\ WF_vars(ServeNext)

\* The device-code completion endpoint over the pool.
AuthNext ==
    \/ LoadFromDatabase
    \/ Authorize
    \/ \E t \in Tasks :
         \/ CompleteStart(t) \/ CompleteCheck(t)
         \/ AddLookup(t) \/ AddUpdateDb(t) \/ AddSave(t) \/ AddSaved(t)
         \/ RefreshExchange(t) \/ RefreshSave(t)

SpecAuth == Init /\ [][AuthNext]_vars


\* The gateway alone: one request through the middleware and the routes, for
\* every configuration of the process.
GatewayNext == GwReceive \/ GwMiddleware \/ GwRoute

GatewayOnlyInit ==
    PoolInit /\ ops = MaxOps /\ db = <<>> /\ StreamInit /\ GatewayInit
    /\ TranslateOff /\ PollOff

\* Request translation alone: one request of either dialect at one endpoint.
TranslateNext == AnthropicMessages \/ AnthropicCount \/ GeminiGenerate \/ GeminiCount

TranslateOnlyInit ==
    PoolInit /\ ops = MaxOps /\ db = <<>> /\ StreamInit /\ GatewayOff
    /\ TranslateInit /\ PollOff

SpecTranslate == TranslateOnlyInit /\ [][TranslateNext]_vars

\* A blocking poll loop alone, with the identity provider.
PollNext == IdpDecide \/ IdpExpire \/ PollCheck \/ PollSleep

PollOnlyInit ==
    PoolInit /\ ops = MaxOps /\ db = <<>> /\ StreamInit /\ GatewayOff
    /\ TranslateOff /\ PollInit

SpecPoll == PollOnlyInit /\ [][PollNext]_vars

SpecGateway == GatewayOnlyInit /\ [][GatewayNext]_vars

(***************************************************************************)
(* Properties of the streaming translator                                  *)
(***************************************************************************)

IsStart(e) == e.type = "content_block_start"
IsStop(e) == e.type = "content_block_stop"
EventPositions == 1..Len(events)

\* C7: for any finite chunk sequence fed to the translator with one state, at
\* most one content block is open at any point (between two starts there is a
\* stop of the first, and every stop closes the block started last), and every
\* content_block_start emitted before a message_stop is followed, before that
\* message_stop, by a content_block_stop with the same index.
C7_BlocksMatched ==
    /\ \A i \in EventPositions : \A j \in EventPositions :
          (i < j /\ IsStart(events[i]) /\ IsStart(events[j]))
          => \E k \in (i + 1)..(j - 1) :
                IsStop(events[k]) /\ events[k].index = events[i].index
    /\ \A k \in EventPositions :
          IsStop(events[k])
          => \E i \in 1..(k - 1) :
                /\ IsStart(events[i]) /\ events[i].index = events[k].index
                /\ \A m \in (i + 1)..(k - 1) : ~IsStart(events[m]) /\ ~IsStop(events[m])
    /\ \A m \in EventPositions : \A i \in EventPositions :
          (events[m].type = "message_stop" /\ i < m /\ IsStart(events[i]))
          => \E k \in (i + 1)..(m - 1) :
                /\ IsStop(events[k]) /\ events[k].index = events[i].index
                /\ \A n \in (i + 1)..(k - 1) : ~IsStart(events[n]) /\ ~IsStop(events[n])

\* C7 witness: a stream that opened a text block and a tool-use block and ended
\* with message_stop.
C7_Witness ==
    /\ \E i \in EventPositions : IsStart(events[i]) /\ events[i].kind = "text"
    /\ \E i \in EventPositions : IsStart(events[i]) /\ events[i].kind = "tool_use"
    /\ Len(events) > 0 /\ events[Len(events)].type = "message_stop"

\* All tool-call deltas received so far, in arrival order.
RECURSIVE FlattenToolCalls(_)
FlattenToolCalls(cs) ==
    IF cs = <<>> THEN <<>>
    ELSE (IF Head(cs).kind = "chunk" THEN Head(cs).toolCalls ELSE <<>>)
         \o FlattenToolCalls(Tail(cs))

RECURSIVE ConcatArguments(_, _)
ConcatArguments(tcs, ti) ==
    IF tcs = <<>> THEN ""
    ELSE (IF Head(tcs).index = ti THEN Head(tcs).arguments ELSE "")
         \o ConcatArguments(Tail(tcs), ti)

RECURSIVE ConcatPartialJson(_, _)
ConcatPartialJson(evs, ti) ==
    IF evs = <<>> THEN ""
    ELSE (IF Head(evs).kind = "input_json_delta" /\ Head(evs).tool = ti
          THEN Head(evs).data ELSE "")
         \o ConcatPartialJson(Tail(evs), ti)

\* The deltas from the first one that introduces tool index ti (id and name
\* present) on; none when ti is never introduced.
RECURSIVE FromIntroduction(_, _)
FromIntroduction(tcs, ti) ==
    IF tcs = <<>> THEN <<>>
    ELSE IF Head(tcs).index = ti /\ Head(tcs).id # "" /\ Head(tcs).name # ""
         THEN tcs
         ELSE FromIntroduction(Tail(tcs), ti)

ToolIndexes == {0, 1}

\* C8 as stated: for each provider tool index, the partial_json payloads of the
\* emitted input_json_delta events, concatenated in emission order, equal the
\* concatenation of all argument fragments received for that tool index.
C8_AllFragmentsForwarded ==
    \A ti \in ToolIndexes :
        ConcatPartialJson(events, ti) = ConcatArguments(FlattenToolCalls(chunksIn), ti)

\* C8 amended: the emitted partial_json payloads of a tool index, concatenated,
\* equal the concatenation of the argument fragments received for that index from
\* the delta that first introduced its id and name on; fragments that arrive
\* before the tool index is introduced are not forwarded.
C8_FragmentsSinceIntroduction ==
    \A ti \in ToolIndexes :
        ConcatPartialJson(events, ti)
          = ConcatArguments(FromIntroduction(FlattenToolCalls(chunksIn), ti), ti)

\* C8 witness: tool index 0 received the fragments "a" and "b" after the
\* introduction of tool index 1 had opened another block, and both were emitted.
C8_Witness ==
    /\ ConcatPartialJson(events, 0) = "ab"
    /\ \E i \in EventPositions : \E j \in EventPositions :
          /\ i < j
          /\ IsStart(events[i]) /\ events[i].tool = 1
          /\ events[j].kind = "input_json_delta" /\ events[j].tool = 0

\* The index of the block that is open after the events evs: that of the last
\* content_block_start with no content_block_stop after it, or NoIndex.
RECURSIVE OpenBlock(_)
OpenBlock(evs) ==
    IF evs = <<>> THEN NoIndex
    ELSE LET last == evs[Len(evs)]
         IN  IF IsStart(last) THEN last.index
             ELSE IF IsStop(last) THEN NoIndex
             ELSE OpenBlock(SubSeq(evs, 1, Len(evs) - 1))

EventsBefore(k) == SubSeq(events, 1, k - 1)

\* C27: message_start is emitted exactly once per stream, as its first event,
\* when the first chunk that carries a choice is translated: the stream has
\* events as soon as such a chunk was translated and none before, the first
\* event is message_start and no later one is.
C27_MessageStartOnceFirst ==
    /\ (events # <<>>) <=> (\E k \in 1..Len(chunksIn) : chunksIn[k].kind = "chunk")
    /\ events # <<>> => events[1].type = "message_start"
    /\ \A k \in 2..Len(events) : events[k].type # "message_start"

\* An item without choice came first and produced nothing; the chunk after it
\* started the message, and a third chunk added events without another start.
C27_Witness ==
    /\ Len(chunksIn) = 3
    /\ chunksIn[1].kind = "nochoice"
    /\ chunksIn[2].kind = "chunk" /\ chunksIn[3].kind = "chunk"
    /\ chunksIn[3].content # ""
    /\ events[1].type = "message_start"
    /\ Len(events) >= 3

\* The step that translates a chunk with a choice, and the events it emits.
Translates(chunk) ==
    /\ Len(chunksIn') = Len(chunksIn) + 1
    /\ chunksIn'[Len(chunksIn')] = chunk
    /\ chunk.kind = "chunk"

Emitted == SubSeq(events', Len(events) + 1, Len(events'))

\* The mapped stop reason of the finish reasons the chunks carry.
StopReasonOf(finishReason) == IF finishReason = "stop" THEN "end_turn" ELSE "tool_use"

\* C28: the events of a chunk that carries a finish_reason end with exactly one
\* message_delta, which carries the mapped stop reason, and one message_stop
\* after it; before them come the events of the chunk's own text and tool
\* deltas, the text first, and then the content_block_stop of the block that
\* these left open, if and only if they left one open.
C28_FinishOrder ==
    [][\A chunk \in Chunks :
          (Translates(chunk) /\ chunk.finishReason # "") =>
             LET new == Emitted
                 n == Len(new)
                 rest == SubSeq(new, 1, n - 2)
                 body == IF rest # <<>> /\ IsStop(rest[Len(rest)])
                         THEN SubSeq(rest, 1, Len(rest) - 1) ELSE rest
                 open == OpenBlock(events \o body)
             IN  /\ n >= 2
                 /\ new[n].type = "message_stop"
                 /\ new[n - 1].type = "message_delta"
                 /\ new[n - 1].data = StopReasonOf(chunk.finishReason)
                 /\ \A k \in 1..Len(rest) :
                       rest[k].type \notin {"message_delta", "message_stop"}
                 /\ open # NoIndex =>
                       rest = Append(body, Event("content_block_stop", open, "", "", NoIndex))
                 /\ open = NoIndex => rest = body
                 /\ chunk.content # "" =>
                       \E k \in 1..Len(body) :
                          /\ body[k].kind = "text_delta" /\ body[k].data = chunk.content
                          /\ \A j \in 1..(k - 1) : body[j].tool = NoIndex
                 /\ \A c \in 1..Len(chunk.toolCalls) :
                       (chunk.toolCalls[c].id # "" /\ chunk.toolCalls[c].name # "")
                       => \E k \in 1..Len(body) :
                             /\ IsStart(body[k]) /\ body[k].kind = "tool_use"
                             /\ body[k].tool = chunk.toolCalls[c].index]_vars

\* A chunk with text, a tool call and finish_reason stop was translated on a
\* fresh stream: text block, tool-use block, its stop, message_delta and
\* message_stop.
C28_Witness ==
    /\ Len(chunksIn) = 1
    /\ chunksIn[1].content # "" /\ chunksIn[1].toolCalls # <<>>
    /\ chunksIn[1].finishReason = "stop"
    /\ Len(events) = 9
    /\ events[7].type = "content_block_stop"
    /\ events[8].type = "message_delta" /\ events[8].data = "end_turn"
    /\ events[9].type = "message_stop"

\* The content_block_start events of the tool-use blocks of tool index ti.
ToolBlockStarts(ti) ==
    {k \in EventPositions :
        IsStart(events[k]) /\ events[k].kind = "tool_use" /\ events[k].tool = ti}

\* Every tool index opens at most one tool-use block in a stream.
OneBlockPerToolIndex ==
    \A ti \in ToolIndexes : Cardinality(ToolBlockStarts(ti)) <= 1

\* C29: each provider tool index opens exactly one tool-use block per stream:
\* the delta that introduces its id and name starts the block, with every
\* earlier block closed and at an index above those of all earlier blocks, and
\* no later delta of that tool index starts another block.
C29_OneBlockPerToolIndex ==
    /\ OneBlockPerToolIndex
    /\ \A ti \in ToolIndexes :
          (FromIntroduction(FlattenToolCalls(chunksIn), ti) # <<>>)
              => ToolBlockStarts(ti) # {}
    /\ \A ti \in ToolIndexes : \A k \in ToolBlockStarts(ti) :
          /\ OpenBlock(EventsBefore(k)) = NoIndex
          /\ \A j \in 1..(k - 1) : IsStart(events[j]) => events[j].index < events[k].index

\* C30: every content_block_delta carries the index of the block that is open
\* when it is emitted; none is emitted for a block that was stopped or while no
\* block is open.
C30_DeltasGoToOpenBlock ==
    \A k \in EventPositions :
        events[k].type = "content_block_delta"
            => OpenBlock(EventsBefore(k)) = events[k].index

\* The text deltas go to the open block.
TextDeltasGoToOpenBlock ==
    \A k \in EventPositions :
        events[k].kind = "text_delta" => OpenBlock(EventsBefore(k)) = events[k].index

\* C31: message_stop is emitted at most once per stream and is the last event
\* of the stream: no event follows it, whatever chunks arrive after the chunk
\* that carried finish_reason.
C31_MessageStopIsLast ==
    \A k \in EventPositions :
        events[k].type = "message_stop" => k = Len(events)

\* The chunks that follow the first chunk with a finish_reason produce no event
\* when they carry no choice.
ChoicelessAfterFinishIsSilent ==
    (/\ Len(chunksIn) >= 2
     /\ chunksIn[1].kind = "chunk" /\ chunksIn[1].finishReason # ""
     /\ \A k \in 2..Len(chunksIn) : chunksIn[k].kind # "chunk")
    => C31_MessageStopIsLast

\* The functionCall parts written to the client.
WrittenFunctionCalls(written) ==
    {written[j].parts[k] : <<j, k>> \in
        {q \in (1..Len(written)) \X (1..MaxChunks) :
            /\ q[2] <= Len(written[q[1]].parts)
            /\ written[q[1]].parts[q[2]].kind = "functionCall"}}

\* C32: whenever a chunk read from the upstream Gemini stream carries a
\* finish_reason, some chunk written to the client carries the mapped
\* finishReason.
C32_FinishReasonReachesClient ==
    \A k \in 1..Len(chunksIn) :
        (chunksIn[k].kind = "chunk" /\ chunksIn[k].finishReason # "")
        => \E j \in 1..Len(events) :
              events[j].finishReason = GeminiFinishReason(chunksIn[k].finishReason)

\* A finish_reason on a chunk that has text or a named tool call is written.
FinishReasonWithPartsReachesClient ==
    \A k \in 1..Len(chunksIn) :
        (/\ chunksIn[k].kind = "chunk" /\ chunksIn[k].finishReason # ""
         /\ (chunksIn[k].content # "" \/ NamedToolCalls(chunksIn[k].toolCalls) # <<>>)
         /\ spc # "failed")
        => \E j \in 1..Len(events) :
              events[j].finishReason = GeminiFinishReason(chunksIn[k].finishReason)

\* The id the deltas of tool index ti carry.
ToolCallIdOf(tcs, ti) ==
    LET from == FromIntroduction(tcs, ti) IN from[1].id

\* C33: when the stream has ended, a tool call whose argument fragments,
\* concatenated in arrival order, are the text of a JSON object has reached the
\* client as a functionCall with the id of the call whose args are that object.
C33_ArgsAreParsedConcatenation ==
    spc # "loop" =>
        \A ti \in ToolIndexes :
            LET tcs == FlattenToolCalls(chunksIn)
                text == ConcatArguments(tcs, ti)
            IN  (FromIntroduction(tcs, ti) # <<>> /\ JsonParse(text).ok)
                => \E part \in WrittenFunctionCalls(events) :
                      /\ part.id = ToolCallIdOf(tcs, ti)
                      /\ part.args = JsonParse(text).value

\* A tool call whose arguments arrive whole in the delta that names it reaches
\* the client with these arguments.
WholeArgumentsReachClient ==
    \A k \in 1..Len(chunksIn) :
        chunksIn[k].kind = "chunk" =>
            \A c \in 1..Len(chunksIn[k].toolCalls) :
                LET d == chunksIn[k].toolCalls[c]
                IN  (d.name # "" /\ JsonParse(d.arguments).ok /\ (k < Len(chunksIn) \/ spc # "failed"))
                    => \E part \in WrittenFunctionCalls(events) :
                          part.id = d.id /\ part.args = JsonParse(d.arguments).value

\* C38: once the downstream client has disconnected, the gateway reads no
\* further chunk from the upstream stream and writes no further event to the
\* client.
C38_DisconnectStopsForwarding ==
    [][~client.connected => (chunksIn' = chunksIn /\ events' = events)]_vars

\* The controller reads and writes nothing once its client has disconnected.
ControllerStopsAtDisconnect ==
    [][(client.impl = "cs" /\ ~client.connected)
          => (chunksIn' = chunksIn /\ events' = events /\ streamState' = streamState)]_vars

(***************************************************************************)
(* Properties of the credential pool                                       *)
(***************************************************************************)

\* The entries the pool holds: the references in the map.
PoolRefs(m) == {m[k].ref : k \in 1..Len(m)}

\* Eligible for selection as specified: active, with an upstream token that is
\* present and not expired. A token counts as expired only once its expiry
\* instant has passed.
Eligible(e, time) ==
    e.isActive /\ e.copilotToken # Null /\ e.copilotTokenExpiresAt >= time

EligibleRefs == {r \in PoolRefs(tokens) : Eligible(heap[r], now)}

\* A step in which slot t takes a new client request (chat completion or
\* embeddings), and one in which that request got an entry from the selection.
Dispatches(t) ==
    /\ CanStart(t)
    /\ ops' = ops - 1
    /\ now' = now
    /\ tasks'[t].op \in {"chat", "embed"}

Selected(t) == Dispatches(t) /\ tasks'[t].ref # NoRef

\* C1: every entry the selection returns is, at the moment of selection, active
\* and holds an upstream token that is present and not expired.
C1_SelectedIsEligible ==
    [][\A t \in Tasks : Selected(t) => Eligible(heap[tasks'[t].ref], now)]_vars

\* A step in which the token exchange of the refresh that slot t runs fails.
FailedRefresh(t) ==
    /\ tasks[t].pc = "rf_exchange"
    /\ tasks'[t] # tasks[t]
    /\ heap'[tasks[t].ref].copilotToken = Null
    /\ heap'[tasks[t].ref].errorCount = heap[tasks[t].ref].errorCount + 1

\* C2: a failed refresh of an entry whose error count is 0 or 1 (the first and
\* the second failure in a row) leaves its active flag as it is and records no
\* deactivation; a failed refresh of an entry whose error count is 2 (the third
\* in a row) sets active to false and calls the store, which then records the
\* row as inactive.
C2_ThirdFailureDeactivates ==
    [][\A t \in Tasks :
          /\ FailedRefresh(t) =>
                LET r == tasks[t].ref
                    n == heap[r].errorCount
                IN  /\ n \in {0, 1} => /\ heap'[r].isActive = heap[r].isActive
                                       /\ tasks'[t].pc # "rf_deact"
                                       /\ db' = db
                    /\ n = 2 => /\ ~heap'[r].isActive
                                /\ tasks'[t].pc = "rf_deact"
          /\ (tasks[t].pc = "rf_deact" /\ tasks'[t] # tasks[t]) =>
                ~db'[heap[tasks[t].ref].id].is_active]_vars

\* Three failed refreshes in a row, and nothing else, have switched an entry off
\* and the store has recorded it.
C2_Witness ==
    \E r \in PoolRefs(tokens) :
        /\ heap[r].errorCount = 3
        /\ heap[r].requestCount = 0
        /\ ~heap[r].isActive
        /\ ~db[heap[r].id].is_active
        /\ \A t \in Tasks : tasks[t].pc = "done"

\* C3: the active flag of a pool entry goes from false to true only in a step
\* of addToken (the update of the existing entry, or the creation of the entry)
\* for a raw credential that resolves to the username of that entry, and the
\* entry then holds that raw credential; no refresh, refresh pass, reportError
\* or selection switches an entry on again.
C3_ReactivatedOnlyByAdd ==
    [][\A k \in 1..Len(tokens) :
          LET id == tokens[k].id
              r == tokens[k].ref
          IN  (/\ ~heap[r].isActive
               /\ MapHas(tokens', id)
               /\ heap'[MapGet(tokens', id)].isActive)
              => \E t \in Tasks :
                    /\ tasks[t].pc \in {"add_lookup", "add_saved"}
                    /\ tasks'[t] # tasks[t]
                    /\ UserOf(tasks[t].raw) = heap[r].username
                    /\ heap'[MapGet(tokens', id)].githubToken = tasks[t].raw]_vars

\* An entry that failed refreshes had switched off, and the store had recorded as
\* inactive, is active again: addToken has just updated it.
C3_Witness ==
    \E t \in Tasks :
        /\ tasks[t].pc = "add_updDb"
        /\ heap[tasks[t].ref].isActive
        /\ heap[tasks[t].ref].errorCount = 0
        /\ ~db[heap[tasks[t].ref].id].is_active

\* The positions of the map whose entry belongs to a username.
EntriesOf(h, m, user) == {k \in 1..Len(m) : h[m[k].ref].username = user}

OnePerUsername(h, m) ==
    \A i, j \in 1..Len(m) : h[m[i].ref].username = h[m[j].ref].username => i = j

\* C4: the pool never holds two entries of one username, whatever the
\* interleaving of the addToken calls; and when addToken puts its raw credential
\* into the pool (into the existing entry of the username, or into a new one)
\* the pool holds exactly one entry of that username, with that raw credential.
C4_OneEntryPerUsername ==
    [][/\ OnePerUsername(heap', tokens')
       /\ \A t \in Tasks :
             (/\ tasks[t].op = "add"
              /\ tasks[t].pc \in {"add_lookup", "add_saved"}
              /\ tasks'[t].pc \in {"add_updDb", "rf_exchange"})
             => LET user == UserOf(tasks[t].raw)
                    at == EntriesOf(heap', tokens', user)
                IN  /\ Cardinality(at) = 1
                    /\ \A k \in at : heap'[tokens'[k].ref].githubToken = tasks[t].raw]_vars

\* Two addToken calls for one username and different raw credentials have
\* interleaved: each created an entry object, and the pool holds one of them.
C4_Witness ==
    /\ tasks[1].op = "add" /\ tasks[2].op = "add"
    /\ tasks[1].pc = "rf_exchange" /\ tasks[2].pc = "rf_exchange"
    /\ tasks[1].ref # tasks[2].ref
    /\ heap[tasks[1].ref].username = heap[tasks[2].ref].username
    /\ heap[tasks[1].ref].githubToken # heap[tasks[2].ref].githubToken
    /\ Cardinality(EntriesOf(heap, tokens, heap[tasks[1].ref].username)) = 1

\* The /auth/complete requests of a device code whose addToken is in flight.
AddsInFlight(tk, dc) ==
    {t \in Tasks : tk[t].op = "complete" /\ tk[t].dc = dc /\ InAddToken(tk[t])}

\* The answers of /auth/complete to a poll that brought no access token.
NoTokenResults == {"pending", "slow_down", "expired", "denied", "auth_error"}

\* C5: at most one addToken per device code is in flight; and an /auth/complete
\* request whose poll returns while the addToken of another request for the same
\* device code is in flight does not call addToken, and if the poll brought an
\* access token it answers processing.
C5_SingleFlight ==
    [][/\ \A dc \in DeviceCodes : Cardinality(AddsInFlight(tasks', dc)) <= 1
       /\ \A t \in Tasks :
             (/\ tasks[t].pc = "cp_check"
              /\ tasks'[t] # tasks[t]
              /\ AddsInFlight(tasks, tasks[t].dc) # {})
             => /\ tasks'[t].pc = "done"
                /\ tasks'[t].result \in NoTokenResults \cup {"processing"}]_vars

\* A request has answered processing while the addToken of the other request
\* for the same device code is in flight.
C5_Witness ==
    \E t, u \in Tasks :
        /\ t # u
        /\ tasks[t].op = "complete" /\ tasks[t].result = "processing"
        /\ u \in AddsInFlight(tasks, tasks[t].dc)

\* C6: when two /auth/complete calls for one authorized device code have been
\* answered, one with success and the other with success or processing, the
\* pool holds exactly one entry of the authorized user, and every success
\* answer names that entry.
C6_OneEntryPerDeviceCode ==
    \A t, u \in Tasks :
        (/\ t # u
         /\ tasks[t].op = "complete" /\ tasks[u].op = "complete"
         /\ tasks[t].pc = "done" /\ tasks[u].pc = "done"
         /\ tasks[t].dc = tasks[u].dc
         /\ tasks[t].result = "success"
         /\ tasks[u].result \in {"success", "processing"})
        => LET at == EntriesOf(heap, tokens, UserOf(AccessTokenOf(tasks[t].dc)))
           IN  /\ Cardinality(at) = 1
               /\ \A k \in at : tokens[k].id = tasks[t].resId
               /\ tasks[u].result = "success" => tasks[u].resId = tasks[t].resId

\* Two overlapping calls for one device code: one was answered processing, the
\* other success.
C6_Witness ==
    \E t, u \in Tasks :
        /\ t # u
        /\ tasks[t].op = "complete" /\ tasks[u].op = "complete"
        /\ tasks[t].dc = tasks[u].dc
        /\ tasks[t].result = "success"
        /\ tasks[u].result = "processing"

\* C9: a selection that returns an entry adds exactly one to the request counter
\* of that entry, sets its last-used time to the current time and changes no
\* other entry's counter; and while exactly one entry A is eligible, every
\* selection returns A (so that 50 calls in a row leave A's counter at 50).
C9_SelectionCountsTheEligible ==
    [][\A t \in Tasks :
          Selected(t) =>
             LET r == tasks'[t].ref
             IN  /\ heap'[r].requestCount = heap[r].requestCount + 1
                 /\ heap'[r].lastUsed = now
                 /\ \A q \in 1..Len(heap) :
                       q # r => heap'[q].requestCount = heap[q].requestCount
                 /\ \A a \in EligibleRefs : EligibleRefs = {a} => r = a]_vars

\* C10: a client request that arrives while no entry is eligible changes no
\* entry, is answered 503 with the no-credentials error and sends no upstream
\* request.
C10_NoEligibleNoUpstream ==
    [][\A t \in Tasks :
          (Dispatches(t) /\ EligibleRefs = {})
          => /\ heap' = heap
             /\ tasks'[t].pc = "done"
             /\ tasks'[t].status = 503
             /\ tasks'[t].result = "no_tokens"
             /\ tasks'[t].sent = <<>>]_vars

\* A step in which the token exchange of the refresh that slot t runs returns
\* with a failure.
ExchangeFails(t) ==
    /\ tasks[t].pc = "rf_exchange"
    /\ tasks'[t] # tasks[t]
    /\ tasks'[t].pc # "rf_save"

ExchangeSucceeds(t) ==
    /\ tasks[t].pc = "rf_exchange"
    /\ tasks'[t].pc = "rf_save"

C20_SuccessfulRefreshResetsCount ==
    [][\A t \in Tasks :
          /\ ExchangeSucceeds(t) =>
                LET r == tasks[t].ref
                IN  /\ heap'[r].copilotToken = CopilotTokenFor(tasks[t].rfRaw)
                    /\ heap'[r].copilotToken # Null
                    /\ heap'[r].copilotTokenExpiresAt = now + 1
                    /\ heap'[r].errorCount = 0
                    /\ heap'[r].isActive = heap[r].isActive
                    /\ tasks'[t].tok = heap'[r].copilotToken
                    /\ tasks'[t].exp = heap'[r].copilotTokenExpiresAt
          /\ (tasks[t].pc = "rf_save" /\ tasks'[t] # tasks[t]) =>
                LET id == heap[tasks[t].ref].id
                IN  id \in 1..Len(db) =>
                        /\ db'[id].copilot_token = tasks[t].tok
                        /\ db'[id].copilot_token_expires_at = tasks[t].exp]_vars

\* A refresh has just succeeded for an entry with which a client request had
\* failed upstream before: the error that request reported is gone from the
\* count.
C20_Witness ==
    \E t, u \in Tasks :
        /\ tasks[t].pc = "rf_save"
        /\ heap[tasks[t].ref].errorCount = 0
        /\ heap[tasks[t].ref].copilotToken = tasks[t].tok
        /\ heap[tasks[t].ref].requestCount > 0
        /\ tasks[u].op = "embed" /\ tasks[u].result = "upstream_error"
        /\ tasks[u].resId = heap[tasks[t].ref].id

\* C21: failures reported through reportError do not count towards the
\* deactivation threshold: a refresh switches an entry off only when 3 token
\* exchanges in a row have failed for it since its last successful exchange or
\* the last replacement of its credential.
C21_OnlyExchangeFailuresDeactivate ==
    [][\A t \in Tasks :
          (/\ ExchangeFails(t)
           /\ heap[tasks[t].ref].isActive
           /\ ~heap'[tasks[t].ref].isActive)
          => heap'[tasks[t].ref].failedExchanges >= DeactivationThreshold]_vars

\* A step in which the request of slot t calls reportError for the entry it
\* was dispatched with: the upstream call failed, or fetching the models did.
Reports(t) ==
    \/ /\ tasks[t].pc \in {"emb_wait", "chat_wait"}
       /\ tasks'[t].result = "upstream_error"
    \/ /\ tasks[t].pc = "chat_models"
       /\ tasks'[t].pc = "chat_wait"
       /\ ~heap[tasks[t].ref].models
       /\ ~heap'[tasks[t].ref].models

\* C22: reportError(id) adds one to the error counter of the entry the pool
\* holds under id and changes nothing else: the upstream token, the active flag
\* and the request counter of that entry, every other entry, the map and the
\* store stay as they are, whatever the counter has reached; for an id the pool
\* does not hold nothing changes.
C22_ReportErrorOnlyCounts ==
    [][\A t \in Tasks :
          Reports(t) =>
             LET id == heap[tasks[t].ref].id
             IN  /\ tokens' = tokens /\ db' = db
                 /\ DOMAIN heap' = DOMAIN heap
                 /\ ~MapHas(tokens, id) => heap' = heap
                 /\ MapHas(tokens, id) =>
                       LET r == MapGet(tokens, id)
                       IN  /\ heap'[r].errorCount = heap[r].errorCount + 1
                           /\ heap'[r].copilotToken = heap[r].copilotToken
                           /\ heap'[r].copilotTokenExpiresAt = heap[r].copilotTokenExpiresAt
                           /\ heap'[r].isActive = heap[r].isActive
                           /\ heap'[r].requestCount = heap[r].requestCount
                           /\ \A q \in DOMAIN heap : q # r => heap'[q] = heap[q]]_vars

\* Reported errors have taken the counter of an entry to the deactivation
\* threshold, and the entry is still active and holds its token.
C22_Witness ==
    \E r \in PoolRefs(tokens) :
        /\ heap[r].errorCount >= DeactivationThreshold
        /\ heap[r].failedExchanges = 0
        /\ heap[r].isActive
        /\ heap[r].copilotToken # Null

\* A request has reported an error for an id that the pool no longer holds.
ReportedUnknownId ==
    \E t \in Tasks :
        /\ tasks[t].result = "upstream_error"
        /\ ~MapHas(tokens, tasks[t].resId)

\* A step of the refresh pass that slot t runs.
PassStep(t) ==
    /\ tasks[t].op = "refreshAll" /\ tasks[t].pc # "done"
    /\ tasks'[t] # tasks[t]

\* C23: in a refresh pass no failure (of an exchange, or of the store that is
\* to record a deactivation) ends the pass or reaches its caller: each step of
\* the pass goes on to the next entry of the snapshot that is active, dropping
\* only entries that are inactive, and the pass ends, without error, only when
\* no active entry of the snapshot is left.
C23_FailureDoesNotAbortPass ==
    [][\A t \in Tasks :
          PassStep(t) =>
             LET q == tasks[t].queue
                 tk == tasks'[t]
             IN  /\ tk.op = "refreshAll"
                 /\ tk.pc = "done" =>
                       /\ tk.result = "refreshed" /\ tk.status = 0
                       /\ \A k \in 1..Len(q) : ~heap'[q[k]].isActive
                 /\ (tk.pc # "done" /\ tk.ref # tasks[t].ref) =>
                       \E n \in 1..Len(q) :
                          /\ tk.queue = SubSeq(q, n + 1, Len(q))
                          /\ tk.ref = q[n] /\ tk.pc = "rf_exchange"
                          /\ heap'[q[n]].isActive
                          /\ \A k \in 1..(n - 1) : ~heap'[q[k]].isActive
                 /\ (tk.pc # "done" /\ tk.ref = tasks[t].ref) =>
                       /\ tk.queue = q
                       /\ tk.pc \in {"rf_save", "rf_deact"}]_vars

\* The third failed exchange in a row has switched the first entry of the
\* snapshot off, the store has failed to record it, and the pass is refreshing
\* the second entry.
C23_Witness ==
    \E t \in Tasks :
        /\ tasks[t].op = "refreshAll" /\ tasks[t].pc = "rf_exchange"
        /\ Len(tokens) = 2
        /\ tasks[t].ref = tokens[2].ref
        /\ ~heap[tokens[1].ref].isActive
        /\ heap[tokens[1].ref].failedExchanges = DeactivationThreshold
        /\ db[heap[tokens[1].ref].id].is_active
        /\ \A u \in Tasks : u # t => tasks[u].pc = "done"

\* Entry r is in the pool, active and without upstream token, and no request
\* is refreshing it.
AwaitsRefresh(r) ==
    /\ mainPc = "serving"
    /\ r \in PoolRefs(tokens)
    /\ heap[r].isActive
    /\ heap[r].copilotToken = Null
    /\ \A t \in Tasks : tasks[t].pc = "done" \/ tasks[t].ref # r

\* A refresh of entry r is under way.
RefreshAttempt(r) ==
    \E t \in Tasks : tasks[t].pc = "rf_exchange" /\ tasks[t].ref = r

\* C24: an active entry without upstream token gets a new refresh attempt in
\* the end, from the process itself.
C24_EventuallyRefreshed ==
    \A r \in 1..2 : AwaitsRefresh(r) ~> RefreshAttempt(r)

\* Task t takes an entry from getRandomTokenEntry in this step.
Selects(t) ==
    /\ tasks[t].pc = "done"
    /\ tasks'[t].op \in {"chat", "embed"}
    /\ tasks'[t].ref # NoRef

\* C35: removeToken(id) returns true exactly when the pool holds an entry with
\* that id. When it has returned true, the pool holds no entry with that id, the
\* row of the id is inactive in the store, and the other entries and rows are as
\* before; the entry that left never comes back into the pool, and a selection
\* returns only entries of the pool. For an unknown id it returns false and
\* changes neither the pool nor the store.
C35_RemoveFrame ==
    [][\A t \in Tasks :
          /\ (tasks[t].pc = "done" /\ tasks'[t].op = "remove" /\ tasks'[t] # tasks[t]) =>
                /\ (tasks'[t].pc = "rm_deact") <=> MapHas(tokens, tasks'[t].id)
                /\ tasks'[t].pc # "rm_deact" =>
                      /\ tasks'[t].pc = "done" /\ tasks'[t].status = 404
                      /\ tokens' = tokens /\ db' = db /\ heap' = heap
          /\ tasks[t].pc = "rm_deact" =>
                \/ tasks'[t] = tasks[t]
                \/ /\ tasks'[t].pc = "done" /\ tasks'[t].status = 200
                   /\ ~MapHas(tokens', tasks[t].id)
                   /\ ~db'[tasks[t].id].is_active
                   /\ \A k \in 1..Len(tokens) :
                         tokens[k].id # tasks[t].id
                             => \E j \in 1..Len(tokens') : tokens'[j] = tokens[k]
                   /\ Len(db') = Len(db)
                   /\ \A k \in 1..Len(db) :
                         k # tasks[t].id => db'[k] = db[k]
                   /\ heap' = heap
          /\ Selects(t) => tasks'[t].ref \in PoolRefs(tokens)
          /\ \A r \in PoolRefs(tokens') \ PoolRefs(tokens) : r > Len(heap)]_vars

\* One removal returned true while another, of an id the pool does not hold,
\* returned false; the pool still holds an entry.
C35_Witness ==
    /\ tasks[1].op = "remove" /\ tasks[1].pc = "done" /\ tasks[1].status = 200
    /\ tasks[2].op = "remove" /\ tasks[2].pc = "done" /\ tasks[2].status = 404
    /\ ~MapHas(tokens, tasks[1].id)
    /\ tokens # <<>>

\* The refresh that slot t runs gets the answer of its exchange in this step.
ExchangeReturns(t) == tasks[t].pc = "rf_exchange" /\ tasks'[t] # tasks[t]

\* The refresh that slot t runs sent the exchange for a raw credential the
\* entry no longer holds.
IsStaleRefresh(t) == tasks[t].rfRaw # heap[tasks[t].ref].githubToken

\* The entry holds the upstream token of the raw credential it holds.
HoldsTokenOfCredential(e) == e.copilotToken = CopilotTokenFor(e.githubToken)

\* An addToken other than the job of slot t has replaced the credential of the
\* entry that slot t refreshes, and its own exchange has returned.
NewCredentialExchanged(t) ==
    \E u \in Tasks \ {t} :
        /\ tasks[u].op = "add"
        /\ \/ /\ tasks[u].pc = "rf_save"
              /\ tasks[u].ref = tasks[t].ref
              /\ tasks[u].rfRaw = heap[tasks[t].ref].githubToken
           \/ /\ tasks[u].pc = "done" /\ tasks[u].status = 200
              /\ tasks[u].resId = heap[tasks[t].ref].id

\* C36: the result of a refresh that started before addToken replaced the raw
\* credential of the entry never overwrites the upstream token, the error
\* count or the active flag that the exchange of the new credential has set.
C36_StaleRefreshChangesNothing ==
    [][\A t \in Tasks :
          (/\ ExchangeReturns(t)
           /\ IsStaleRefresh(t)
           /\ NewCredentialExchanged(t)
           /\ HoldsTokenOfCredential(heap[tasks[t].ref]))
          => LET r == tasks[t].ref
             IN  /\ heap'[r].copilotToken = heap[r].copilotToken
                 /\ heap'[r].errorCount = heap[r].errorCount
                 /\ heap'[r].isActive = heap[r].isActive]_vars

\* The answer of an exchange that was sent for the credential the entry still
\* holds leaves the entry with the token of that credential or with none.
FreshRefreshKeepsTokenOfCredential ==
    [][\A t \in Tasks :
          (ExchangeReturns(t) /\ ~IsStaleRefresh(t))
          => LET e == heap'[tasks[t].ref]
             IN  e.copilotToken = Null \/ HoldsTokenOfCredential(e)]_vars

\* Every upstream request of a client call carries an upstream token.
DispatchedTokenNotNull ==
    \A t \in Tasks : \A k \in 1..Len(tasks[t].sent) :
        tasks[t].sent[k].authorization # Null

\* C37: every upstream request dispatched for a client call carries the
\* upstream token that made the selected entry eligible, which is not null: the
\* token the entry held when selectActive returned it, the one the first request
\* of the call was built with.
C37_DispatchCarriesSelectedToken ==
    \A t \in Tasks : \A k \in 1..Len(tasks[t].sent) :
        /\ tasks[t].sent[k].authorization # Null
        /\ tasks[t].sent[k].authorization = tasks[t].sent[1].authorization

\* The request sent in the step that selects the entry carries its token.
FirstRequestCarriesToken ==
    \A t \in Tasks :
        tasks[t].sent # <<>> => tasks[t].sent[1].authorization # Null

(***************************************************************************)
(* Properties of the gateway                                               *)
(***************************************************************************)

KeyConfigured == ~Falsy(gw.apiKey)

\* The request carries the configured key in Authorization: Bearer, x-api-key
\* or x-goog-api-key.
CarriesKey ==
    \/ gw.req.authorization \in {<<"Bearer", " ", gw.apiKey>>, <<"bearer", " ", gw.apiKey>>}
    \/ gw.req.xApiKey = gw.apiKey
    \/ gw.req.xGoogApiKey = gw.apiKey

\* C12: when an API key is configured, a request reaches the handler of a
\* model-serving endpoint (chat completions, models, embeddings, messages,
\* count_tokens, Gemini generate), at any path where it is mounted, only if it
\* carries the configured key in one of the three headers; when no key is
\* configured no request is answered by the authentication middleware.
C12_KeyGuardsModelEndpoints ==
    /\ (KeyConfigured /\ gw.handler \in ModelHandlers) => CarriesKey
    /\ (~KeyConfigured /\ gw.pc = "answered") => gw.status # 401

PathUnderAuth == Len(gw.req.path) >= 2 /\ gw.req.path[1] = "auth"

SingleCheck(t) == tasks[t].pc = "cp_check" /\ tasks'[t] # tasks[t]

\* C18: a single-check completion polls exactly once; authorization_pending is
\* answered with status pending and slow_down with status slow_down, and for
\* these and for every error result the request ends without a credential
\* added, the pool and the single-flight set unchanged.
C18_SingleCheckPollsOnce ==
    [][\A t \in Tasks :
          /\ Len(tasks'[t].polled) <= 1
          /\ SingleCheck(t) =>
                LET tk == tasks'[t]
                IN  /\ Len(tk.polled) = 1
                    /\ tk.pc # "cp_check"
                    /\ tk.polled[1] = "authorization_pending" => tk.result = "pending"
                    /\ tk.polled[1] = "slow_down" => tk.result = "slow_down"
                    /\ tk.polled[1] # "token" =>
                          /\ tk.pc = "done"
                          /\ tk.result \notin {"success", "processing"}
                          /\ heap' = heap /\ tokens' = tokens /\ db' = db
                          /\ processingDeviceCodes' = processingDeviceCodes]_vars

\* A completion was told slow_down while the pool holds an entry and another
\* completion of the same device code is adding its credential.
C18_Witness ==
    \E t, u \in Tasks :
        /\ tasks[t].op = "complete" /\ tasks[t].pc = "done"
        /\ tasks[t].polled = <<"slow_down">> /\ tasks[t].result = "slow_down"
        /\ tasks[u].op = "complete" /\ tasks[u].pc # "done" /\ tasks[u].dc = tasks[t].dc
        /\ tasks[u].dc \in processingDeviceCodes
        /\ tokens # <<>>

\* C25: a device code is in the single-flight set exactly while the addToken
\* of a completion request for it is in flight; it leaves the set when the
\* addToken returns and when it throws, so the set is empty whenever no
\* completion request is running.
C25_SetHoldsAddsInFlight ==
    /\ processingDeviceCodes = {dc \in DeviceCodes : AddsInFlight(tasks, dc) # {}}
    /\ (\A t \in Tasks : tasks[t].op = "complete" => tasks[t].pc = "done")
          => processingDeviceCodes = {}

\* The addToken of a completion request has thrown, the request was answered
\* with the error, and the set is empty.
C25_Witness ==
    \E t \in Tasks :
        /\ tasks[t].op = "complete" /\ tasks[t].pc = "done"
        /\ tasks[t].polled = <<"token">>
        /\ tasks[t].status = 500
        /\ processingDeviceCodes = {}
        /\ \A u \in Tasks : tasks[u].pc = "done"

\* The poll results that end the flow in failure.
TerminalResults == {"access_denied", "expired_token"}

\* C17: in the blocking loop, once the identity provider has answered
\* access_denied or expired_token the flow has failed: the loop has ended
\* without token and polls no more.
C17_DeniedAndExpiredAreTerminal ==
    [][/\ (poll'.polls # poll.polls /\ poll'.last \in TerminalResults)
            => poll'.pc = "failed"
       /\ poll.last \in TerminalResults
            => (poll'.polls = poll.polls /\ poll'.pc # "returned")]_vars

\* What the blocking loop is to do in a step: a poll that brought a token
\* returns it, a poll that brought expired_token fails the flow, after every
\* other result the loop sleeps; the sleep is followed by the next poll; a loop
\* that has ended polls no more.
PollLoopContract ==
    /\ poll'.polls # poll.polls =>
          /\ poll.pc = "check"
          /\ poll'.polls = poll.polls + 1
          /\ poll'.pc = CASE poll'.last = "token" -> "returned"
                          [] poll'.last = "expired_token" -> "failed"
                          [] OTHER -> "sleep"
    /\ (poll.pc = "sleep" /\ poll'.pc # "sleep") => poll'.pc = "check"
    /\ poll.pc \in {"returned", "failed"} =>
          (poll'.pc = poll.pc /\ poll'.polls = poll.polls)

\* C26: the blocking poll loop ends only when a check yields an access token,
\* which it returns, or expired_token, which fails the flow; after every other
\* result it waits once and polls again, and it polls no more once ended.
C26_LoopEndsOnTokenOrExpired ==
    [][PollLoopContract]_vars

\* The loop of pollAccessToken keeps to it.
PollLoopEndsAtExpired ==
    [][poll.impl = "ts" => PollLoopContract]_vars

(***************************************************************************)
(* Properties of request translation                                       *)
(***************************************************************************)

\* The characters of all textual content of a request: the system
\* instruction, string contents, and the text of every block or part.
TextualChars(payload) ==
    LET systemChars ==
            IF payload.system.kind = "undefined" THEN 0
            ELSE IF payload.system.kind = "string" THEN Len(payload.system.text)
            ELSE IF payload.system.kind = "blocks"
            THEN SumOf(Map(payload.system.blocks, LAMBDA t : Len(t)))
            ELSE SumOf(Map(payload.system.parts, LAMBDA t : Len(t)))
        turnChars(m) ==
            IF payload.dialect = "G" THEN SumOf(Map(m.parts, LAMBDA p : Len(p.text)))
            ELSE IF m.kind = "string" THEN Len(m.text)
            ELSE SumOf(Map(m.blocks, LAMBDA b : Len(b.text)))
    IN  systemChars + SumOf(Map(payload.messages, turnChars))

\* C14: both count-tokens endpoints answer ceil(N / 4), N being the sum of the
\* character lengths of all textual content of the request, the system
\* instruction included.
C14_CountIsCeilOfQuarter ==
    (tr.pc = "done" /\ tr.endpoint \in {"count_tokens", "countTokens"})
        => tr.count = CeilDiv4(TextualChars(tr.payload))

\* The roles the canonical messages of a turn of the given role may have.
CanonicalRoles(role) == IF role = "user" THEN {"user", "tool"} ELSE {"assistant"}

\* The canonical messages are the turns in order: they split into one
\* non-empty run per turn, each run holding only roles of its turn.
RECURSIVE TurnsInOrder(_, _)
TurnsInOrder(canonical, turns) ==
    IF turns = <<>> THEN canonical = <<>>
    ELSE \E n \in 1..Len(canonical) :
            /\ \A k \in 1..n : canonical[k].role \in CanonicalRoles(turns[1].role)
            /\ TurnsInOrder(SubSeq(canonical, n + 1, Len(canonical)), Tail(turns))

\* The canonical messages after the system message.
TurnMessages(canonical) == SelectSeq(canonical, LAMBDA m : m.role # "system")

\* Every tool message carries the id the response translator gave the client
\* for the call it answers, and that is the id of the call in the canonical
\* assistant message before it.
ToolCallIdsCorrelate(canonical) ==
    \A k \in 1..Len(canonical) :
        canonical[k].role = "tool" =>
            /\ canonical[k].tool_call_id = ResponseToolCallId(canonical[k].answers)
            /\ \A j \in 1..(k - 1) :
                  \A c \in 1..Len(canonical[j].tool_calls) :
                      canonical[j].tool_calls[c].call = canonical[k].answers
                          => canonical[j].tool_calls[c].id = canonical[k].tool_call_id

\* C15: the translation of a request of either dialect keeps the turns in
\* source order with matching roles, and every canonical tool message carries
\* the id of the assistant tool call it answers, the id the response
\* translator returned for that call.
C15_OrderAndToolCallIds ==
    (tr.pc = "done" /\ tr.endpoint \in {"messages", "generateContent"})
        => /\ TurnsInOrder(TurnMessages(tr.canonical), tr.payload.messages)
           /\ ToolCallIdsCorrelate(tr.canonical)

\* The turns of Dialect A keep their order, roles and tool-call ids.
AnthropicOrderAndToolCallIds ==
    (tr.pc = "done" /\ tr.endpoint = "messages")
        => /\ TurnsInOrder(TurnMessages(tr.canonical), tr.payload.messages)
           /\ ToolCallIdsCorrelate(tr.canonical)

\* The turns of Dialect G keep their order and roles.
GeminiTurnsInOrder ==
    (tr.pc = "done" /\ tr.endpoint = "generateContent")
        => TurnsInOrder(TurnMessages(tr.canonical), tr.payload.messages)

\* The blocks of a turn of either dialect as (type, text, id): a
\* functionResponse part is a tool result, an inlineData part an image.
TurnBlocks(payload, turn) ==
    IF payload.dialect = "G"
    THEN Map(turn.parts,
             LAMBDA p : [type |-> CASE p.kind = "functionResponse" -> "tool_result"
                                    [] p.kind = "inlineData" -> "image"
                                    [] OTHER -> p.kind,
                         text |-> p.text, id |-> p.id])
    ELSE IF turn.kind = "blocks" THEN turn.blocks
    ELSE << AnthropicBlock("text", turn.text, "") >>

ImagesOf(msg) ==
    Len(SelectSeq(msg.parts, LAMBDA p : p.type = "image_url"))

\* The canonical messages msgs are the translation the statement asks for of a
\* user turn with the given blocks: one tool message per tool-result block, in
\* source order and with its id, then one user message that holds the texts and
\* images of the other blocks, if these have any.
ToolResultsThenUser(msgs, blocks) ==
    LET results == SelectSeq(blocks, LAMBDA b : b.type = "tool_result")
        others == SelectSeq(blocks, LAMBDA b : b.type # "tool_result")
        n == Len(results)
        chars == SumOf(Map(others, LAMBDA b : Len(b.text)))
        images == Len(SelectSeq(others, LAMBDA b : b.type = "image"))
    IN  /\ Len(msgs) \in {n, n + 1}
        /\ \A k \in 1..n :
              msgs[k].role = "tool" /\ msgs[k].tool_call_id = results[k].id
        /\ Len(msgs) = n + 1 => msgs[n + 1].role = "user"
        /\ (chars > 0 \/ images > 0) =>
              /\ Len(msgs) = n + 1
              /\ CanonicalChars(msgs[n + 1]) >= chars
              /\ ImagesOf(msgs[n + 1]) = images

\* A translated request that consists of one user turn with tool results and
\* other blocks.
MixedUserTurn ==
    /\ tr.pc = "done" /\ tr.endpoint \in {"messages", "generateContent"}
    /\ Len(tr.payload.messages) = 1
    /\ tr.payload.messages[1].role = "user"
    /\ LET blocks == TurnBlocks(tr.payload, tr.payload.messages[1])
       IN  /\ \E k \in 1..Len(blocks) : blocks[k].type = "tool_result"
           /\ \E k \in 1..Len(blocks) : blocks[k].type # "tool_result"

\* C34: a user turn that holds tool-result blocks and other blocks is translated
\* to one tool message per tool-result block, in source order and each with the
\* tool-call id of its block, followed by at most one user message with the
\* remaining content; no tool message comes after the user message and no
\* content of the turn is lost.
C34_ToolResultsFirstNothingLost ==
    MixedUserTurn =>
        ToolResultsThenUser(TurnMessages(tr.canonical),
                            TurnBlocks(tr.payload, tr.payload.messages[1]))

\* The same for the turns of Dialect A alone.
AnthropicToolResultsFirst ==
    (MixedUserTurn /\ tr.endpoint = "messages") => C34_ToolResultsFirstNothingLost

====
